---- MODULE Spec2Model ----
(***************************************************************************)
(* Thessaloniki RecycleFinder: the HomePage interaction controller, the    *)
(* RecyclingMap click dispatch, the PointDetailsDialog controls and the    *)
(* recyclingPointsService calls against the Firestore collection.          *)
(*                                                                         *)
(* Every React state cell of HomePage is a variable.  An async handler is  *)
(* split where it awaits: the part before the await issues a call record   *)
(* (holding the values its closure captured), the store answers it in a    *)
(* StoreStep, and the handler's continuation runs in a Resolve action.     *)
(***************************************************************************)
EXTENDS Integers, Sequences, FiniteSets, Bags, TLC

VARIABLES
    db,                     \* firebase.ts: the Firestore handle is set (TRUE) or undefined
    currentScale,           \* RecyclingMap state cell: the zoom factor, in tenths
    store,                  \* the recyclingPoints collection: sequence of documents
    nextDocId,              \* the id Firestore gives the next added document
    isClient,               \* HomePage state cells, by their names in the source
    isLoading,
    error,
    allPoints,
    selectedCategories,
    selectedPoint,
    editingPointId,
    isSelectingLocation,
    isAddingNewPointMode,
    categoryForNewPoint,
    showProblemReportForm,  \* PointDetailsDialog state cell
    pending,                \* service calls issued and not yet resumed by their handler
    nCalls,                 \* number of service calls issued so far
    requests,               \* number of requests that reached Firestore
    toast,                  \* title of the toast the last step showed, "" if none
    lastOp                  \* history: the handler (or continuation) that ran last

vars == <<db, currentScale, store, nextDocId, isClient, isLoading, error, allPoints,
          selectedCategories, selectedPoint, editingPointId, isSelectingLocation,
          isAddingNewPointMode, categoryForNewPoint, showProblemReportForm,
          pending, nCalls, requests, toast, lastOp>>

-----------------------------------------------------------------------------
(* Bounds of the model and the inputs the user can give.                    *)

MaxCalls == 2               \* mutation calls (insert, update, delete) issued in one run

NewNames == {"Bin"}                     \* what the user types into the name input
NewDescriptions == {"glass only"}       \* what the user types into the description
CategoryChoices == {"glass"}            \* categories picked in the two selects
ClickXs == {-40, 600}                   \* pointer offset from the image's left edge, px
ClickYs == {600}                        \* pointer offset from the image's top edge, px

-----------------------------------------------------------------------------
(* Values.                                                                  *)

NULL == 0                   \* null id; document ids are 1, 2, ...

NoError == ""               \* error = null

\* selectedPoint = null
NoPoint == [id |-> NULL, name |-> "", category |-> "", x |-> 0, y |-> 0, description |-> ""]

INITIAL_CATEGORIES == <<"plastic", "paper", "electronics", "glass", "metal", "organic">>

imageWidth == 2000
imageHeight == 1500

\* The collection when the session starts.
InitialDocs ==
    << [id |-> 1, name |-> "Depot", category |-> "paper", x |-> 50, y |-> 50, description |-> ""] >>

Range(s) == {s[i] : i \in 1..Len(s)}

\* Array.prototype.find by id: the first entry with that id, NoPoint for undefined
find(points, pointId) ==
    IF \E i \in 1..Len(points) : points[i].id = pointId
    THEN points[CHOOSE i \in 1..Len(points) :
                    /\ points[i].id = pointId
                    /\ \A j \in 1..(i-1) : points[j].id # pointId]
    ELSE NoPoint

\* prevPoints.map(p => (p.id === pointId ? updated : p))
mapReplace(points, pointId, updated) ==
    [i \in 1..Len(points) |-> IF points[i].id = pointId THEN updated ELSE points[i]]

\* prevPoints.filter(p => p.id !== pointId)
filterOut(points, pointId) ==
    LET Keep(p) == p.id # pointId IN SelectSeq(points, Keep)

-----------------------------------------------------------------------------
(* recyclingPointsService.ts and the collection behind it.                  *)

PointFields == {"name", "category", "x", "y", "description"}

\* A Firestore document may lack fields; a point read from it gets the defaults.
mapDocToRecyclingPoint(doc) ==
    [id |-> doc.id,
     name |-> IF "name" \in DOMAIN doc /\ doc.name # "" THEN doc.name ELSE "Unnamed Point",
     category |-> IF "category" \in DOMAIN doc /\ doc.category # "" THEN doc.category ELSE "unknown",
     x |-> IF "x" \in DOMAIN doc THEN doc.x ELSE 0,
     y |-> IF "y" \in DOMAIN doc THEN doc.y ELSE 0,
     description |-> IF "description" \in DOMAIN doc /\ doc.description # "" THEN doc.description ELSE ""]

\* updateDoc(ref, updates): the named fields are written, the others are kept
updateDoc(doc, fields, data) ==
    [f \in DOMAIN doc \cup fields |-> IF f \in fields THEN data[f] ELSE doc[f]]

HasDoc(pointId) == \E i \in 1..Len(store) : store[i].id = pointId

\* The record of one service call: what was asked, and what the calling handler's
\* closure holds for its continuation (data, orig, sel).  A call made while db is
\* undefined throws before any request is made: it is born failed.
\* the message of the Error thrown when db is not initialized
NotInitialized ==
    << "SERVICE_ERROR", "Firestore database (db) is not initialized." >>

\* the message of the Error Firestore rejects a request with
FirestoreErrorMessage == "Missing or insufficient permissions."

\* error.message || String(error)
originalErrorMessage(message) == IF message # "" THEN message ELSE "Error"

\* the message of the Error rethrown by the catch branch
OperationFailed(message) ==
    << "SERVICE_ERROR", "Firestore operation failed. Original error: ",
       originalErrorMessage(message) >>

\* a service call that goes on to its request although db is not initialized
Call_IgnoresHandle(kind, pointId, fields, data, orig, sel) ==
    [kind |-> kind, pointId |-> pointId, fields |-> fields,
     data |-> data, orig |-> orig, sel |-> sel,
     phase |-> "sent", result |-> <<>>, errMsg |-> <<>>]

Call(kind, pointId, fields, data, orig, sel) ==
    [kind |-> kind, pointId |-> pointId, fields |-> fields,
     data |-> data, orig |-> orig, sel |-> sel,
     phase |-> IF db THEN "sent" ELSE "err", result |-> <<>>,
     errMsg |-> IF db THEN <<>> ELSE NotInitialized]

Issue(c) ==
    /\ pending' = pending (+) SetToBag({c})
    /\ nCalls' = nCalls + 1
    /\ requests' = IF db THEN requests + 1 ELSE requests

NoIssue == UNCHANGED <<pending, nCalls, requests>>

Note(op, id, title) ==
    /\ lastOp' = op
    /\ toast' = title

\* the store has answered call c: its record becomes d
Answered(c, d) == (pending (-) SetToBag({c})) (+) SetToBag({d})

UpdateKinds == {"coord", "category", "name", "description"}

\* getDocs / addDoc / updateDoc / deleteDoc succeed at the store
StoreOk(c) ==
    /\ c.phase = "sent"
    /\ c.kind \in UpdateKinds => HasDoc(c.pointId)
    /\ CASE c.kind = "fetch" ->
              /\ pending' = Answered(c, [c EXCEPT !.phase = "ok",
                                !.result = [i \in 1..Len(store) |-> mapDocToRecyclingPoint(store[i])]])
              /\ UNCHANGED <<store, nextDocId>>
         [] c.kind = "insert" ->
              /\ store' = Append(store, [c.data EXCEPT !.id = nextDocId])
              /\ nextDocId' = nextDocId + 1
              /\ pending' = Answered(c, [c EXCEPT !.phase = "ok", !.data = [c.data EXCEPT !.id = nextDocId]])
         [] c.kind \in UpdateKinds ->
              /\ store' = [i \in 1..Len(store) |->
                              IF store[i].id = c.pointId
                              THEN updateDoc(store[i], c.fields, c.data)
                              ELSE store[i]]
              /\ pending' = Answered(c, [c EXCEPT !.phase = "ok"])
              /\ UNCHANGED nextDocId
         [] c.kind = "delete" ->
              /\ store' = filterOut(store, c.pointId)
              /\ pending' = Answered(c, [c EXCEPT !.phase = "ok"])
              /\ UNCHANGED nextDocId
    /\ UNCHANGED <<db, currentScale, isClient, isLoading, error, allPoints, selectedCategories,
                   selectedPoint, editingPointId, isSelectingLocation,
                   isAddingNewPointMode, categoryForNewPoint, showProblemReportForm,
                   nCalls, requests, toast, lastOp>>

\* the request fails (rules, network, a missing document): the service rethrows
StoreFail(c) ==
    /\ c.phase = "sent"
    /\ pending' = Answered(c, [c EXCEPT !.phase = "err",
                                         !.errMsg = OperationFailed(FirestoreErrorMessage)])
    /\ UNCHANGED <<db, currentScale, store, nextDocId, isClient, isLoading, error, allPoints,
                   selectedCategories, selectedPoint, editingPointId,
                   isSelectingLocation, isAddingNewPointMode, categoryForNewPoint,
                   showProblemReportForm, nCalls, requests, toast, lastOp>>

-----------------------------------------------------------------------------
(* HomePage (app/page): mount, the initial fetch, the rendering conditions.  *)

\* useEffect on mount: fetchPoints() is started, all categories are selected
Mount ==
    /\ ~isClient
    /\ isClient' = TRUE
    /\ isLoading' = TRUE
    /\ error' = NoError
    /\ selectedCategories' = INITIAL_CATEGORIES
    /\ Issue(Call("fetch", NULL, {}, NoPoint, NoPoint, NULL))
    /\ Note("mount", NULL, "")
    /\ UNCHANGED <<db, currentScale, store, nextDocId, allPoints, selectedPoint, editingPointId,
                   isSelectingLocation, isAddingNewPointMode, categoryForNewPoint,
                   showProblemReportForm>>

\* fetchPoints without its finally branch
ResolveFetch_KeepsLoading(c) ==
    /\ c.kind = "fetch"
    /\ c.phase \in {"ok", "err"}
    /\ pending' = pending (-) SetToBag({c})
    /\ IF c.phase = "ok"
       THEN /\ allPoints' = c.result
            /\ UNCHANGED error
            /\ Note("fetchPoints", NULL, "")
       ELSE /\ error' = "Failed to load recycling points"
            /\ UNCHANGED allPoints
            /\ Note("fetchPoints", NULL, "Error Loading Recycling Points")
    /\ UNCHANGED <<db, currentScale, store, nextDocId, isClient, isLoading,
                   selectedCategories, selectedPoint, editingPointId,
                   isSelectingLocation, isAddingNewPointMode, categoryForNewPoint,
                   showProblemReportForm, nCalls, requests>>

\* fetchPoints after the await: try / catch / finally
ResolveFetch(c) ==
    /\ c.kind = "fetch"
    /\ c.phase \in {"ok", "err"}
    /\ pending' = pending (-) SetToBag({c})
    /\ IF c.phase = "ok"
       THEN /\ allPoints' = c.result
            /\ UNCHANGED error
            /\ Note("fetchPoints", NULL, "")
       ELSE /\ error' = "Failed to load recycling points"
            /\ UNCHANGED allPoints
            /\ Note("fetchPoints", NULL, "Error Loading Recycling Points")
    /\ isLoading' = FALSE
    /\ UNCHANGED <<db, currentScale, store, nextDocId, isClient, selectedCategories, selectedPoint,
                   editingPointId, isSelectingLocation, isAddingNewPointMode,
                   categoryForNewPoint, showProblemReportForm, nCalls, requests>>

\* Rendered without the early return for isLoading
Rendered_WhileLoading == isClient /\ error = NoError

\* Rendered without the early return for error
Rendered_IgnoresError == isClient /\ ~isLoading

\* The page renders its panels, the map and the dialog only past the three early
\* returns (!isClient, isLoading, error).
Rendered == isClient /\ ~isLoading /\ error = NoError

dialogOpen == selectedPoint # NoPoint /\ ~isSelectingLocation /\ ~isAddingNewPointMode

\* PointDetailsDialog: isCurrentlyEditingThisPoint
isCurrentlyEditingThisPoint == editingPointId = selectedPoint.id

\* the dialog's content is on screen
DialogShown == Rendered /\ dialogOpen

includes(seq, v) == \E i \in 1..Len(seq) : seq[i] = v

\* filteredPoints that shows every point when no category is selected
filteredPoints_AllWhenNoneSelected ==
    IF Len(selectedCategories) = 0
    THEN allPoints
    ELSE LET Visible(point) == includes(selectedCategories, point.category)
         IN  SelectSeq(allPoints, Visible)

filteredPoints ==
    IF Len(selectedCategories) = 0
    THEN <<>>
    ELSE LET Visible(point) == includes(selectedCategories, point.category)
         IN  SelectSeq(allPoints, Visible)

\* handleCloseDialog without setEditingPointId(null)
handleCloseDialog_KeepsEditing ==
    /\ selectedPoint' = NoPoint
    /\ isSelectingLocation' = FALSE
    /\ UNCHANGED editingPointId

\* handleCloseDialog without setIsSelectingLocation(false)
handleCloseDialog_KeepsSelecting ==
    /\ selectedPoint' = NoPoint
    /\ editingPointId' = NULL
    /\ UNCHANGED isSelectingLocation

\* setSelectedPoint(null); setEditingPointId(null); setIsSelectingLocation(false)
handleCloseDialog ==
    /\ selectedPoint' = NoPoint
    /\ editingPointId' = NULL
    /\ isSelectingLocation' = FALSE

-----------------------------------------------------------------------------
(* Category filter.                                                         *)

\* CategoryFilter's checkbox for categoryId: checked is the negation of what it shows
handleCategoryChange(categoryId) ==
    /\ Rendered
    /\ LET checked == ~includes(selectedCategories, categoryId)
           Other(id) == id # categoryId
       IN  selectedCategories' = IF checked
                                 THEN Append(selectedCategories, categoryId)
                                 ELSE SelectSeq(selectedCategories, Other)
    /\ Note("handleCategoryChange", NULL, "")
    /\ NoIssue
    /\ UNCHANGED <<db, currentScale, store, nextDocId, isClient, isLoading, error, allPoints,
                   selectedPoint, editingPointId, isSelectingLocation,
                   isAddingNewPointMode, categoryForNewPoint, showProblemReportForm>>

resetFilters ==
    /\ Rendered
    /\ selectedCategories' = INITIAL_CATEGORIES
    /\ Note("resetFilters", NULL, "")
    /\ NoIssue
    /\ UNCHANGED <<db, currentScale, store, nextDocId, isClient, isLoading, error, allPoints,
                   selectedPoint, editingPointId, isSelectingLocation,
                   isAddingNewPointMode, categoryForNewPoint, showProblemReportForm>>

-----------------------------------------------------------------------------
(* Selection and edit mode.                                                 *)

\* handlePointSelect without its isSelectingLocation refusal
handlePointSelect_NoRelocationTest(point) ==
    IF isAddingNewPointMode
    THEN /\ Note("handlePointSelect", point.id, "Adding New Point")
         /\ UNCHANGED selectedPoint
    ELSE IF editingPointId # NULL /\ editingPointId # point.id /\ ~isSelectingLocation
    THEN /\ Note("handlePointSelect", point.id, "Edit Mode Active")
         /\ UNCHANGED selectedPoint
    ELSE /\ selectedPoint' = point
         /\ Note("handlePointSelect", point.id, "")

\* handlePointSelect without its "editing another point" refusal
handlePointSelect_NoEditTest(point) ==
    IF isAddingNewPointMode
    THEN /\ Note("handlePointSelect", point.id, "Adding New Point")
         /\ UNCHANGED selectedPoint
    ELSE IF isSelectingLocation
    THEN /\ Note("handlePointSelect", point.id, "Location Selection Active")
         /\ UNCHANGED selectedPoint
    ELSE /\ selectedPoint' = point
         /\ Note("handlePointSelect", point.id, "")

\* HomePage.handlePointSelect: the three refusals, else select the point
handlePointSelect(point) ==
    IF isAddingNewPointMode
    THEN /\ Note("handlePointSelect", point.id, "Adding New Point")
         /\ UNCHANGED selectedPoint
    ELSE IF isSelectingLocation
    THEN /\ Note("handlePointSelect", point.id, "Location Selection Active")
         /\ UNCHANGED selectedPoint
    ELSE IF editingPointId # NULL /\ editingPointId # point.id /\ ~isSelectingLocation
    THEN /\ Note("handlePointSelect", point.id, "Edit Mode Active")
         /\ UNCHANGED selectedPoint
    ELSE /\ selectedPoint' = point
         /\ Note("handlePointSelect", point.id, "")

\* RecyclingMap: the onClick the map gives each PointMarker.  The click also
\* reaches handleMapClick, which returns at once for a target inside a marker.
MarkerClick(point) ==
    /\ Rendered
    /\ includes(filteredPoints, point)
    /\ IF ~isSelectingLocation /\ ~isAddingNewPointMode
       THEN handlePointSelect(point)
       ELSE IF isSelectingLocation /\ ~isAddingNewPointMode
       THEN handlePointSelect(point)
       ELSE /\ Note("markerClick", point.id, "")
            /\ UNCHANGED selectedPoint
    /\ NoIssue
    /\ UNCHANGED <<db, currentScale, store, nextDocId, isClient, isLoading, error, allPoints,
                   selectedCategories, editingPointId, isSelectingLocation,
                   isAddingNewPointMode, categoryForNewPoint, showProblemReportForm>>

\* handleToggleEditMode whose null branch lacks setIsSelectingLocation(false)
handleToggleEditMode_NullKeepsSelecting(pointIdToToggle) ==
    IF editingPointId = pointIdToToggle /\ ~isSelectingLocation
    THEN [isAddingNewPointMode |-> FALSE,
          editingPointId |-> NULL,
          isSelectingLocation |-> isSelectingLocation,
          selectedPoint |-> selectedPoint]
    ELSE IF pointIdToToggle = NULL
    THEN [isAddingNewPointMode |-> FALSE,
          editingPointId |-> NULL,
          isSelectingLocation |-> isSelectingLocation,
          selectedPoint |-> selectedPoint]
    ELSE [isAddingNewPointMode |-> FALSE,
          editingPointId |-> pointIdToToggle,
          isSelectingLocation |-> FALSE,
          selectedPoint |-> find(allPoints, pointIdToToggle)]

\* HomePage.handleToggleEditMode: the values it leaves in the four cells it can set
handleToggleEditMode(pointIdToToggle) ==
    IF editingPointId = pointIdToToggle /\ ~isSelectingLocation
    THEN [isAddingNewPointMode |-> FALSE,
          editingPointId |-> NULL,
          isSelectingLocation |-> isSelectingLocation,
          selectedPoint |-> selectedPoint]
    ELSE IF pointIdToToggle = NULL
    THEN [isAddingNewPointMode |-> FALSE,
          editingPointId |-> NULL,
          isSelectingLocation |-> FALSE,
          selectedPoint |-> selectedPoint]
    ELSE [isAddingNewPointMode |-> FALSE,
          editingPointId |-> pointIdToToggle,
          isSelectingLocation |-> FALSE,
          selectedPoint |-> find(allPoints, pointIdToToggle)]

\* the dialog's onToggleEditMode(pointId): the cells take the handler's values
onToggleEditMode(pointId) ==
    LET after == handleToggleEditMode(pointId)
    IN  /\ isAddingNewPointMode' = after.isAddingNewPointMode
        /\ editingPointId' = after.editingPointId
        /\ isSelectingLocation' = after.isSelectingLocation
        /\ selectedPoint' = after.selectedPoint

\* PointDetailsDialog: "Edit Point Details"
handleEditButtonClick ==
    /\ DialogShown
    /\ ~isCurrentlyEditingThisPoint
    /\ ~showProblemReportForm
    /\ showProblemReportForm' = FALSE
    /\ onToggleEditMode(selectedPoint.id)
    /\ Note("handleEditButtonClick", selectedPoint.id, "")
    /\ NoIssue
    /\ UNCHANGED <<db, currentScale, store, nextDocId, isClient, isLoading, error, allPoints,
                   selectedCategories, categoryForNewPoint>>

\* PointDetailsDialog: "Finish Editing"
handleFinishEditing ==
    /\ DialogShown
    /\ isCurrentlyEditingThisPoint
    /\ ~showProblemReportForm
    /\ onToggleEditMode(NULL)
    /\ Note("handleFinishEditing", selectedPoint.id, "Edits Saved")
    /\ NoIssue
    /\ UNCHANGED <<db, currentScale, store, nextDocId, isClient, isLoading, error, allPoints,
                   selectedCategories, categoryForNewPoint, showProblemReportForm>>

\* PointDetailsDialog: "Report a Problem", and the report form's Cancel
handleToggleProblemReportForm ==
    /\ DialogShown
    /\ showProblemReportForm \/ ~isCurrentlyEditingThisPoint
    /\ showProblemReportForm' = ~showProblemReportForm
    /\ IF isCurrentlyEditingThisPoint /\ ~showProblemReportForm
       THEN onToggleEditMode(NULL)
       ELSE UNCHANGED <<isAddingNewPointMode, editingPointId, isSelectingLocation,
                        selectedPoint>>
    /\ Note("handleToggleProblemReportForm", selectedPoint.id, "")
    /\ NoIssue
    /\ UNCHANGED <<db, currentScale, store, nextDocId, isClient, isLoading, error, allPoints,
                   selectedCategories, categoryForNewPoint>>

\* handleProblemReportSubmit that closes the dialog after the report
handleProblemReportSubmit_ClosesDialog(blank) ==
    /\ DialogShown
    /\ showProblemReportForm
    /\ showProblemReportForm' = FALSE
    /\ handleCloseDialog
    /\ Note("handleProblemReportSubmit", selectedPoint.id, "Report Submitted")
    /\ NoIssue
    /\ UNCHANGED <<db, currentScale, store, nextDocId, isClient, isLoading, error,
                   allPoints, selectedCategories, isAddingNewPointMode,
                   categoryForNewPoint>>

\* ProblemReportForm.handleSubmit -> handleLocalProblemReportSubmit ->
\* HomePage.handleProblemReportSubmit; blank is a report with an empty field
handleProblemReportSubmit(blank) ==
    /\ DialogShown
    /\ showProblemReportForm
    /\ IF blank
       THEN /\ UNCHANGED showProblemReportForm
            /\ Note("handleSubmit", selectedPoint.id, "")
       ELSE /\ showProblemReportForm' = FALSE
            /\ Note("handleProblemReportSubmit", selectedPoint.id,
                    IF find(allPoints, selectedPoint.id) # NoPoint
                    THEN "Report Submitted" ELSE "")
    /\ NoIssue
    /\ UNCHANGED <<db, currentScale, store, nextDocId, isClient, isLoading, error, allPoints,
                   selectedCategories, selectedPoint, editingPointId,
                   isSelectingLocation, isAddingNewPointMode, categoryForNewPoint>>

\* PointDetailsDialog: Close, or the dialog's own dismissal (onOpenChange(false))
handleDialogClose ==
    /\ DialogShown
    /\ showProblemReportForm' = FALSE
    /\ handleCloseDialog
    /\ Note("handleDialogClose", selectedPoint.id, "")
    /\ NoIssue
    /\ UNCHANGED <<db, currentScale, store, nextDocId, isClient, isLoading, error, allPoints,
                   selectedCategories, isAddingNewPointMode, categoryForNewPoint>>

\* PointDetailsDialog: "Change Location on Map" -> HomePage.handleChangeLocationStart
handleChangeLocationStart ==
    /\ DialogShown
    /\ isCurrentlyEditingThisPoint
    /\ ~showProblemReportForm
    /\ IF editingPointId # NULL
       THEN /\ isSelectingLocation' = TRUE
            /\ Note("handleChangeLocationStart", editingPointId, "Select New Location")
       ELSE /\ UNCHANGED isSelectingLocation
            /\ Note("handleChangeLocationStart", editingPointId, "")
    /\ NoIssue
    /\ UNCHANGED <<db, currentScale, store, nextDocId, isClient, isLoading, error, allPoints,
                   selectedCategories, selectedPoint, editingPointId,
                   isAddingNewPointMode, categoryForNewPoint, showProblemReportForm>>

-----------------------------------------------------------------------------
(* Field edits and delete: the part of each async handler before its await,  *)
(* and its continuation.                                                    *)

CanIssue == nCalls <= MaxCalls      \* the fetch is the first call

\* An async handler up to its await: find the point, return if absent, build the
\* updated snapshot, call updateRecyclingPointInDB(pointId, updates).
IssueUpdate(kind, pointId, fields, updated) ==
    LET pointToUpdate == find(allPoints, pointId)
    IN  IF pointToUpdate = NoPoint
        THEN NoIssue
        ELSE Issue(Call(kind, pointId, fields, updated, pointToUpdate, selectedPoint.id))

\* the name input of the dialog -> HomePage.handlePointNameChange
handlePointNameChange(newName) ==
    /\ DialogShown
    /\ isCurrentlyEditingThisPoint
    /\ newName # selectedPoint.name
    /\ CanIssue
    /\ IssueUpdate("name", selectedPoint.id, {"name"},
                   [find(allPoints, selectedPoint.id) EXCEPT !.name = newName])
    /\ Note("handlePointNameChange", selectedPoint.id, "")
    /\ UNCHANGED <<db, currentScale, store, nextDocId, isClient, isLoading, error, allPoints,
                   selectedCategories, selectedPoint, editingPointId,
                   isSelectingLocation, isAddingNewPointMode, categoryForNewPoint,
                   showProblemReportForm>>

\* the description textarea -> HomePage.handlePointDescriptionChange
handlePointDescriptionChange(newDescription) ==
    /\ DialogShown
    /\ isCurrentlyEditingThisPoint
    /\ newDescription # selectedPoint.description
    /\ CanIssue
    /\ IssueUpdate("description", selectedPoint.id, {"description"},
                   [find(allPoints, selectedPoint.id) EXCEPT !.description = newDescription])
    /\ Note("handlePointDescriptionChange", selectedPoint.id, "")
    /\ UNCHANGED <<db, currentScale, store, nextDocId, isClient, isLoading, error, allPoints,
                   selectedCategories, selectedPoint, editingPointId,
                   isSelectingLocation, isAddingNewPointMode, categoryForNewPoint,
                   showProblemReportForm>>

\* the dialog's category select -> HomePage.handlePointCategoryChange
handlePointCategoryChange(newCategoryId) ==
    /\ DialogShown
    /\ isCurrentlyEditingThisPoint
    /\ ~showProblemReportForm
    /\ newCategoryId # selectedPoint.category
    /\ CanIssue
    /\ IssueUpdate("category", selectedPoint.id, {"category"},
                   [find(allPoints, selectedPoint.id) EXCEPT !.category = newCategoryId])
    /\ Note("handlePointCategoryChange", selectedPoint.id, "")
    /\ UNCHANGED <<db, currentScale, store, nextDocId, isClient, isLoading, error, allPoints,
                   selectedCategories, selectedPoint, editingPointId,
                   isSelectingLocation, isAddingNewPointMode, categoryForNewPoint,
                   showProblemReportForm>>

\* fieldChangeFailed with the local entry replaced as in the try branch
fieldChangeFailed_AppliesEdit(c) ==
    /\ allPoints' = mapReplace(allPoints, c.pointId, c.data)
    /\ UNCHANGED selectedPoint

\* catch branch of the three field handlers: a toast, no state is set
fieldChangeFailed(c) ==
    UNCHANGED <<allPoints, selectedPoint>>

\* continuation of the three field handlers: try branch, catch branch
ResolveFieldChange(c) ==
    /\ c.kind \in {"name", "description", "category"}
    /\ c.phase \in {"ok", "err"}
    /\ pending' = pending (-) SetToBag({c})
    /\ IF c.phase = "ok"
       THEN /\ allPoints' = mapReplace(allPoints, c.pointId, c.data)
            /\ selectedPoint' = IF c.sel # NULL /\ c.sel = c.pointId
                                THEN c.data ELSE selectedPoint
            /\ Note(c.kind, c.pointId,
                    IF c.kind = "category" THEN "Category Updated" ELSE "")
       ELSE /\ fieldChangeFailed(c)
            /\ Note(c.kind, c.pointId,
                    CASE c.kind = "name" -> "Error Renaming Point"
                      [] c.kind = "description" -> "Error Updating Description"
                      [] c.kind = "category" -> "Error Updating Category")
    /\ UNCHANGED <<db, currentScale, store, nextDocId, isClient, isLoading, error,
                   selectedCategories, editingPointId, isSelectingLocation,
                   isAddingNewPointMode, categoryForNewPoint, showProblemReportForm,
                   nCalls, requests>>

\* handleDeletePoint that reports a point missing from the list as an error
handleDeletePoint_ReportsAbsent ==
    /\ DialogShown
    /\ isCurrentlyEditingThisPoint
    /\ ~showProblemReportForm
    /\ LET pointToDelete == find(allPoints, selectedPoint.id)
       IN  IF pointToDelete = NoPoint
           THEN /\ NoIssue
                /\ Note("handleDeletePoint", selectedPoint.id, "Error Deleting Point")
           ELSE /\ CanIssue
                /\ Issue(Call("delete", selectedPoint.id, {}, NoPoint, pointToDelete,
                              selectedPoint.id))
                /\ Note("handleDeletePoint", selectedPoint.id, "")
    /\ UNCHANGED <<db, currentScale, store, nextDocId, isClient, isLoading, error,
                   allPoints, selectedCategories, selectedPoint, editingPointId,
                   isSelectingLocation, isAddingNewPointMode, categoryForNewPoint,
                   showProblemReportForm>>

\* the alert dialog's Delete -> handleDeleteConfirmed -> HomePage.handleDeletePoint
handleDeletePoint ==
    /\ DialogShown
    /\ isCurrentlyEditingThisPoint
    /\ ~showProblemReportForm
    /\ LET pointToDelete == find(allPoints, selectedPoint.id)
       IN  IF pointToDelete = NoPoint
           THEN NoIssue
           ELSE /\ CanIssue
                /\ Issue(Call("delete", selectedPoint.id, {}, NoPoint, pointToDelete,
                              selectedPoint.id))
    /\ Note("handleDeletePoint", selectedPoint.id, "")
    /\ UNCHANGED <<db, currentScale, store, nextDocId, isClient, isLoading, error, allPoints,
                   selectedCategories, selectedPoint, editingPointId,
                   isSelectingLocation, isAddingNewPointMode, categoryForNewPoint,
                   showProblemReportForm>>

\* continuation of handleDeletePoint: try branch
deletePointSucceeded(pointId) ==
    /\ allPoints' = filterOut(allPoints, pointId)
    /\ handleCloseDialog

\* deletePointFailed with the dialog closed as in the try branch
deletePointFailed_ClosesDialog ==
    /\ handleCloseDialog
    /\ UNCHANGED allPoints

\* continuation of handleDeletePoint: catch branch (a toast, no state change)
deletePointFailed ==
    UNCHANGED <<allPoints, selectedPoint, editingPointId, isSelectingLocation>>

ResolveDeletePoint(c) ==
    /\ c.kind = "delete"
    /\ c.phase \in {"ok", "err"}
    /\ pending' = pending (-) SetToBag({c})
    /\ IF c.phase = "ok"
       THEN /\ deletePointSucceeded(c.pointId)
            /\ Note("delete", c.pointId, "Point Deleted")
       ELSE /\ deletePointFailed
            /\ Note("delete", c.pointId, "Error Deleting Point")
    /\ UNCHANGED <<db, currentScale, store, nextDocId, isClient, isLoading, error,
                   selectedCategories, isAddingNewPointMode, categoryForNewPoint,
                   showProblemReportForm, nCalls, requests>>

-----------------------------------------------------------------------------
(* Placement: adding a point, relocating a point, the map click.            *)

\* the add panel's category select: setCategoryForNewPoint(value)
SelectCategoryForNewPoint(value) ==
    /\ Rendered
    /\ value # categoryForNewPoint
    /\ categoryForNewPoint' = value
    /\ Note("setCategoryForNewPoint", NULL, "")
    /\ NoIssue
    /\ UNCHANGED <<db, currentScale, store, nextDocId, isClient, isLoading, error, allPoints,
                   selectedCategories, selectedPoint, editingPointId,
                   isSelectingLocation, isAddingNewPointMode, showProblemReportForm>>

\* enterAddMode without setIsSelectingLocation(false)
enterAddMode_KeepsRelocation ==
    /\ isAddingNewPointMode' = TRUE
    /\ editingPointId' = NULL
    /\ selectedPoint' = NoPoint
    /\ UNCHANGED isSelectingLocation

\* handleInitiateAddPoint past its test: add mode on, the other modes cleared
enterAddMode ==
    /\ isAddingNewPointMode' = TRUE
    /\ isSelectingLocation' = FALSE
    /\ editingPointId' = NULL
    /\ selectedPoint' = NoPoint

\* handleInitiateAddPoint without its test of categoryForNewPoint
handleInitiateAddPoint_NoCategoryTest ==
    /\ Rendered
    /\ enterAddMode
    /\ Note("handleInitiateAddPoint", NULL, "Add New Point")
    /\ NoIssue
    /\ UNCHANGED <<db, currentScale, store, nextDocId, isClient, isLoading, error, allPoints,
                   selectedCategories, categoryForNewPoint, showProblemReportForm>>

\* HomePage.handleInitiateAddPoint.  The handler's own test of the category is
\* modelled; the button that calls it is also disabled while the category is empty.
handleInitiateAddPoint ==
    /\ Rendered
    /\ IF categoryForNewPoint = ""
       THEN /\ Note("handleInitiateAddPoint", NULL, "No Category Selected")
            /\ UNCHANGED <<isAddingNewPointMode, isSelectingLocation, editingPointId,
                           selectedPoint>>
       ELSE /\ enterAddMode
            /\ Note("handleInitiateAddPoint", NULL, "Add New Point")
    /\ NoIssue
    /\ UNCHANGED <<db, currentScale, store, nextDocId, isClient, isLoading, error, allPoints,
                   selectedCategories, categoryForNewPoint, showProblemReportForm>>

Min(a, b) == IF a < b THEN a ELSE b
Max(a, b) == IF a > b THEN a ELSE b

\* (offset / (dimension * currentScale)) * 100 without Math.max / Math.min
Percent_Unclamped(offset, dimension, scale) ==
    (offset * 1000) \div (dimension * scale)

\* RecyclingMap.handleMapClick: (offset / (dimension * currentScale)) * 100, clamped
\* to [0, 100].  scale is currentScale in tenths; a quotient that is no whole number
\* is rounded down.
Percent(offset, dimension, scale) ==
    Max(0, Min(100, (offset * 1000) \div (dimension * scale)))

\* handlePlaceNewPoint that returns while another call is unresolved
handlePlaceNewPoint_OneAtATime(newX, newY) ==
    IF ~isAddingNewPointMode \/ categoryForNewPoint = "" \/ pending # EmptyBag
    THEN NoIssue
    ELSE Issue(Call("insert", NULL, PointFields,
                    [id |-> NULL, name |-> "New Recycling Point",
                     category |-> categoryForNewPoint, x |-> newX, y |-> newY,
                     description |-> ""],
                    NoPoint, selectedPoint.id))

\* HomePage.handlePlaceNewPoint up to its await
handlePlaceNewPoint(newX, newY) ==
    IF ~isAddingNewPointMode \/ categoryForNewPoint = ""
    THEN NoIssue
    ELSE Issue(Call("insert", NULL, PointFields,
                    [id |-> NULL, name |-> "New Recycling Point",
                     category |-> categoryForNewPoint, x |-> newX, y |-> newY,
                     description |-> ""],
                    NoPoint, selectedPoint.id))

\* HomePage.handlePointCoordinateChange up to its await
handlePointCoordinateChange(pointId, newX, newY) ==
    IssueUpdate("coord", pointId, {"x", "y"},
                [find(allPoints, pointId) EXCEPT !.x = newX, !.y = newY])

\* handleMapClick that relocates whenever editingPointId is set
handleMapClick_NoRelocationTest(xOnImage, yOnImage) ==
    /\ Rendered
    /\ LET newXPercent == Percent(xOnImage, imageWidth, currentScale)
           newYPercent == Percent(yOnImage, imageHeight, currentScale)
       IN  IF isAddingNewPointMode
           THEN /\ CanIssue
                /\ handlePlaceNewPoint(newXPercent, newYPercent)
                /\ Note("handlePlaceNewPoint", NULL, "")
           ELSE IF editingPointId # NULL
           THEN /\ CanIssue
                /\ handlePointCoordinateChange(editingPointId, newXPercent, newYPercent)
                /\ Note("handlePointCoordinateChange", editingPointId, "")
           ELSE /\ NoIssue
                /\ Note("handleMapClick", NULL, "")
    /\ UNCHANGED <<db, currentScale, store, nextDocId, isClient, isLoading, error,
                   allPoints, selectedCategories, selectedPoint, editingPointId,
                   isSelectingLocation, isAddingNewPointMode, categoryForNewPoint,
                   showProblemReportForm>>

\* RecyclingMap.handleMapClick for a click that is not on a marker
handleMapClick(xOnImage, yOnImage) ==
    /\ Rendered
    /\ LET newXPercent == Percent(xOnImage, imageWidth, currentScale)
           newYPercent == Percent(yOnImage, imageHeight, currentScale)
       IN  IF isAddingNewPointMode
           THEN /\ CanIssue
                /\ handlePlaceNewPoint(newXPercent, newYPercent)
                /\ Note("handlePlaceNewPoint", NULL, "")
           ELSE IF editingPointId # NULL /\ isSelectingLocation
           THEN /\ CanIssue
                /\ handlePointCoordinateChange(editingPointId, newXPercent, newYPercent)
                /\ Note("handlePointCoordinateChange", editingPointId, "")
           ELSE /\ NoIssue
                /\ Note("handleMapClick", NULL, "")
    /\ UNCHANGED <<db, currentScale, store, nextDocId, isClient, isLoading, error, allPoints,
                   selectedCategories, selectedPoint, editingPointId,
                   isSelectingLocation, isAddingNewPointMode, categoryForNewPoint,
                   showProblemReportForm>>

\* placeNewPointSucceeded without setCategoryForNewPoint('')
placeNewPointSucceeded_KeepsCategory(addedPointWithId) ==
    /\ allPoints' = Append(allPoints, addedPointWithId)
    /\ selectedPoint' = addedPointWithId
    /\ editingPointId' = addedPointWithId.id
    /\ isAddingNewPointMode' = FALSE
    /\ UNCHANGED <<categoryForNewPoint, isSelectingLocation>>

\* placeNewPointSucceeded that drops the point when add mode was left meanwhile
placeNewPointSucceeded_OnlyInAddMode(addedPointWithId) ==
    IF isAddingNewPointMode
    THEN /\ allPoints' = Append(allPoints, addedPointWithId)
         /\ selectedPoint' = addedPointWithId
         /\ editingPointId' = addedPointWithId.id
         /\ isAddingNewPointMode' = FALSE
         /\ categoryForNewPoint' = ""
         /\ UNCHANGED isSelectingLocation
    ELSE UNCHANGED <<allPoints, selectedPoint, editingPointId, isAddingNewPointMode,
                     categoryForNewPoint, isSelectingLocation>>

\* continuation of handlePlaceNewPoint: try branch
placeNewPointSucceeded(addedPointWithId) ==
    /\ allPoints' = Append(allPoints, addedPointWithId)
    /\ selectedPoint' = addedPointWithId
    /\ editingPointId' = addedPointWithId.id
    /\ isAddingNewPointMode' = FALSE
    /\ categoryForNewPoint' = ""
    /\ UNCHANGED isSelectingLocation

\* placeNewPointFailed without the reset of the add mode
placeNewPointFailed_KeepsAddMode ==
    UNCHANGED <<allPoints, selectedPoint, editingPointId, isSelectingLocation,
                isAddingNewPointMode, categoryForNewPoint>>

\* continuation of handlePlaceNewPoint: catch branch
placeNewPointFailed ==
    /\ isAddingNewPointMode' = FALSE
    /\ categoryForNewPoint' = ""
    /\ UNCHANGED <<allPoints, selectedPoint, editingPointId, isSelectingLocation>>

\* ResolvePlaceNewPoint whose catch branch shows no toast
ResolvePlaceNewPoint_SilentFailure(c) ==
    /\ c.kind = "insert"
    /\ c.phase \in {"ok", "err"}
    /\ pending' = pending (-) SetToBag({c})
    /\ IF c.phase = "ok"
       THEN /\ placeNewPointSucceeded(c.data)
            /\ Note("insert", c.data.id, "Point Added")
       ELSE /\ placeNewPointFailed
            /\ Note("insert", NULL, "")
    /\ UNCHANGED <<db, currentScale, store, nextDocId, isClient, isLoading, error,
                   selectedCategories, showProblemReportForm, nCalls, requests>>

ResolvePlaceNewPoint(c) ==
    /\ c.kind = "insert"
    /\ c.phase \in {"ok", "err"}
    /\ pending' = pending (-) SetToBag({c})
    /\ IF c.phase = "ok"
       THEN /\ placeNewPointSucceeded(c.data)
            /\ Note("insert", c.data.id, "Point Added")
       ELSE /\ placeNewPointFailed
            /\ Note("insert", NULL, "Error Adding Point")
    /\ UNCHANGED <<db, currentScale, store, nextDocId, isClient, isLoading, error,
                   selectedCategories, showProblemReportForm, nCalls, requests>>

\* coordinateChangeSucceeded without setIsSelectingLocation(false)
coordinateChangeSucceeded_KeepsSelecting(pointId, updatedPointData) ==
    /\ allPoints' = mapReplace(allPoints, pointId, updatedPointData)
    /\ selectedPoint' = updatedPointData
    /\ editingPointId' = pointId
    /\ UNCHANGED isSelectingLocation

\* continuation of handlePointCoordinateChange: try branch
coordinateChangeSucceeded(pointId, updatedPointData) ==
    /\ allPoints' = mapReplace(allPoints, pointId, updatedPointData)
    /\ selectedPoint' = updatedPointData
    /\ editingPointId' = pointId
    /\ isSelectingLocation' = FALSE

\* coordinateChangeFailed without setIsSelectingLocation(false)
coordinateChangeFailed_KeepsSelecting(pointId, pointToUpdate) ==
    /\ selectedPoint' = pointToUpdate
    /\ editingPointId' = pointId
    /\ UNCHANGED <<allPoints, isSelectingLocation>>

\* continuation of handlePointCoordinateChange: catch branch
coordinateChangeFailed(pointId, pointToUpdate) ==
    /\ isSelectingLocation' = FALSE
    /\ selectedPoint' = pointToUpdate
    /\ editingPointId' = pointId
    /\ UNCHANGED allPoints

ResolveCoordinateChange(c) ==
    /\ c.kind = "coord"
    /\ c.phase \in {"ok", "err"}
    /\ pending' = pending (-) SetToBag({c})
    /\ IF c.phase = "ok"
       THEN /\ coordinateChangeSucceeded(c.pointId, c.data)
            /\ Note("coord", c.pointId, "Point Moved")
       ELSE /\ coordinateChangeFailed(c.pointId, c.orig)
            /\ Note("coord", c.pointId, "Error Moving Point")
    /\ UNCHANGED <<db, currentScale, store, nextDocId, isClient, isLoading, error,
                   selectedCategories, isAddingNewPointMode, categoryForNewPoint,
                   showProblemReportForm, nCalls, requests>>

-----------------------------------------------------------------------------
(* The Escape key.                                                          *)

\* cancelAddPoint without setCategoryForNewPoint('')
cancelAddPoint_KeepsCategory ==
    /\ isAddingNewPointMode' = FALSE
    /\ UNCHANGED <<categoryForNewPoint, isSelectingLocation, selectedPoint, editingPointId>>

\* cancelAddPoint without setIsAddingNewPointMode(false)
cancelAddPoint_KeepsAddMode ==
    /\ categoryForNewPoint' = ""
    /\ UNCHANGED <<isAddingNewPointMode, isSelectingLocation, selectedPoint, editingPointId>>

\* handleKeyDown, first case: add mode is cancelled
cancelAddPoint ==
    /\ isAddingNewPointMode' = FALSE
    /\ categoryForNewPoint' = ""
    /\ UNCHANGED <<isSelectingLocation, selectedPoint, editingPointId>>

\* handleKeyDown for event.key === 'Escape' (a window listener set by an effect)
handleKeyDown ==
    /\ isClient
    /\ IF isAddingNewPointMode
       THEN /\ cancelAddPoint
            /\ Note("handleKeyDown", NULL, "Add Point Cancelled")
       ELSE IF isSelectingLocation
       THEN /\ isSelectingLocation' = FALSE
            /\ selectedPoint' = IF editingPointId # NULL
                                THEN find(allPoints, editingPointId)
                                ELSE selectedPoint
            /\ Note("handleKeyDown", NULL, "Location Change Cancelled")
            /\ UNCHANGED <<isAddingNewPointMode, categoryForNewPoint, editingPointId>>
       ELSE IF selectedPoint # NoPoint /\ editingPointId = NULL
       THEN /\ handleCloseDialog
            /\ Note("handleKeyDown", NULL, "")
            /\ UNCHANGED <<isAddingNewPointMode, categoryForNewPoint>>
       ELSE /\ Note("handleKeyDown", NULL, "")
            /\ UNCHANGED <<isAddingNewPointMode, categoryForNewPoint,
                           isSelectingLocation, selectedPoint, editingPointId>>
    /\ NoIssue
    /\ UNCHANGED <<db, currentScale, store, nextDocId, isClient, isLoading, error, allPoints,
                   selectedCategories, showProblemReportForm>>

-----------------------------------------------------------------------------
(* The specification.                                                       *)

Init ==
    /\ db \in BOOLEAN
    /\ currentScale = 10
    /\ store = InitialDocs
    /\ nextDocId = Len(InitialDocs) + 1
    /\ isClient = FALSE
    /\ isLoading = TRUE
    /\ error = NoError
    /\ allPoints = <<>>
    /\ selectedCategories = <<>>
    /\ selectedPoint = NoPoint
    /\ editingPointId = NULL
    /\ isSelectingLocation = FALSE
    /\ isAddingNewPointMode = FALSE
    /\ categoryForNewPoint = ""
    /\ showProblemReportForm = FALSE
    /\ pending = EmptyBag
    /\ nCalls = 0
    /\ requests = 0
    /\ toast = ""
    /\ lastOp = "init"

\* the store answers a call, or a handler resumes after its await
Service ==
    \/ \E c \in BagToSet(pending) : StoreOk(c)
    \/ \E c \in BagToSet(pending) : StoreFail(c)
    \/ \E c \in BagToSet(pending) : ResolveFetch(c)
    \/ \E c \in BagToSet(pending) : ResolveFieldChange(c)
    \/ \E c \in BagToSet(pending) : ResolveDeletePoint(c)
    \/ \E c \in BagToSet(pending) : ResolvePlaceNewPoint(c)
    \/ \E c \in BagToSet(pending) : ResolveCoordinateChange(c)

\* the controls inside PointDetailsDialog
Dialog ==
    \/ handleEditButtonClick
    \/ handleFinishEditing
    \/ handleToggleProblemReportForm
    \/ \E blank \in BOOLEAN : handleProblemReportSubmit(blank)
    \/ handleDialogClose
    \/ handleChangeLocationStart
    \/ \E newName \in NewNames : handlePointNameChange(newName)
    \/ \E newDescription \in NewDescriptions : handlePointDescriptionChange(newDescription)
    \/ \E newCategoryId \in CategoryChoices : handlePointCategoryChange(newCategoryId)
    \/ handleDeletePoint

\* the controls of the page behind the dialog: the add panel and the map
Page ==
    \/ \E point \in Range(allPoints) : MarkerClick(point)
    \/ \E value \in CategoryChoices : SelectCategoryForNewPoint(value)
    \/ handleInitiateAddPoint
    \/ \E xOnImage \in ClickXs, yOnImage \in ClickYs :
           handleMapClick(xOnImage, yOnImage)

\* Every handler can run whenever the element that calls it is rendered.
Next ==
    \/ Mount
    \/ Service
    \/ Dialog
    \/ Page
    \/ handleKeyDown

Spec == Init /\ [][Next]_vars

\* The same program with the details dialog modal (as the dialog component makes
\* it): while the dialog is on screen the page behind it takes no pointer input.
\* Its behaviours are behaviours of Spec.
NextModal ==
    \/ Mount
    \/ Service
    \/ Dialog
    \/ ~DialogShown /\ Page
    \/ handleKeyDown

SpecModal == Init /\ [][NextModal]_vars

\* The modal program with a store that answers every request with success
NextAllSucceed ==
    \/ Mount
    \/ \E c \in BagToSet(pending) : StoreOk(c)
    \/ \E c \in BagToSet(pending) : ResolveFetch(c)
    \/ \E c \in BagToSet(pending) : ResolveFieldChange(c)
    \/ \E c \in BagToSet(pending) : ResolveDeletePoint(c)
    \/ \E c \in BagToSet(pending) : ResolvePlaceNewPoint(c)
    \/ \E c \in BagToSet(pending) : ResolveCoordinateChange(c)
    \/ Dialog
    \/ ~DialogShown /\ Page
    \/ handleKeyDown

SpecAllSucceed == Init /\ [][NextAllSucceed]_vars

\* the store answers the fetch request
FetchAnswered ==
    \E c \in BagToSet(pending) : c.kind = "fetch" /\ (StoreOk(c) \/ StoreFail(c))

\* the continuation of fetchPoints runs once its promise is settled
FetchResumed == \E c \in BagToSet(pending) : ResolveFetch(c)

\* The program with its scheduling: the mount effect runs after the first render,
\* the store answers the fetch, and a settled promise resumes its awaiter.
SpecLive ==
    /\ Spec
    /\ WF_vars(Mount)
    /\ WF_vars(FetchAnswered)
    /\ WF_vars(FetchResumed)

-----------------------------------------------------------------------------
(* Properties.                                                              *)

\* C1: the interaction modes are mutually exclusive in every reachable state:
\* whenever isAddingNewPointMode is true, editingPointId is null, no point is
\* selected and isSelectingLocation is false.
C1_ModesExclusive ==
    isAddingNewPointMode =>
        /\ editingPointId = NULL
        /\ selectedPoint = NoPoint
        /\ ~isSelectingLocation

\* C2: the two placement modes are never both on, and the details dialog is not
\* open while either of them is on.
C2_PlacementModesExclusive ==
    /\ ~(isSelectingLocation /\ isAddingNewPointMode)
    /\ (isSelectingLocation \/ isAddingNewPointMode) => ~dialogOpen

\* C2 witness: add mode is on while a point is selected (a relocation resolved
\* after add mode was entered), and the dialog stays closed.
C2_Witness ==
    /\ isAddingNewPointMode
    /\ selectedPoint # NoPoint
    /\ toast = "Point Moved"

\* C3: when a placement call (insert, coordinate update) has resolved successfully
\* the controller is in Editing on the affected point: a point is selected, it is
\* the one being edited, neither placement mode is on and the dialog is open.
C3_PlacementLandsInEditing ==
    toast \in {"Point Added", "Point Moved"} =>
        /\ selectedPoint # NoPoint
        /\ editingPointId = selectedPoint.id
        /\ ~isSelectingLocation
        /\ ~isAddingNewPointMode
        /\ dialogOpen

\* a call record that this step has issued
Issued(c) ==
    /\ nCalls' = nCalls + 1
    /\ pending' = pending (+) SetToBag({c})

\* this step is the continuation of call c, which the store had answered with phase ph
Resumed(c, ph) ==
    /\ c.phase = ph
    /\ nCalls' = nCalls
    /\ pending' = pending (-) SetToBag({c})
    /\ BagCardinality(pending') = BagCardinality(pending) - 1

\* this step is the store's success answer to the update call c
Served(c) ==
    /\ c.phase = "sent"
    /\ pending' = Answered(c, [c EXCEPT !.phase = "ok"])
    /\ pending' # pending

\* C4, the click: a coordinate update is issued only in RelocatingPoint, for the
\* point being edited, naming exactly x and y, with the clamped percentages of the
\* click and the point's other fields as they are in the local list.
C4_RelocationIssued ==
    \A c \in BagToSet(pending') :
        (c.kind = "coord" /\ Issued(c)) =>
            /\ isSelectingLocation /\ editingPointId = c.pointId
            /\ c.fields = {"x", "y"}
            /\ c.orig = find(allPoints, c.pointId)
            /\ \E xOnImage \in ClickXs, yOnImage \in ClickYs :
                   c.data = [c.orig EXCEPT !.x = Percent(xOnImage, imageWidth, currentScale),
                                           !.y = Percent(yOnImage, imageHeight, currentScale)]
            /\ c.data.x \in 0..100 /\ c.data.y \in 0..100

\* C4, the store: the update writes x and y of that document and nothing else
C4_RelocationStored ==
    \A c \in BagToSet(pending) :
        (c.kind = "coord" /\ Served(c)) =>
            \A i \in 1..Len(store) :
                store'[i] = IF store[i].id = c.pointId
                            THEN [store[i] EXCEPT !.x = c.data.x, !.y = c.data.y]
                            ELSE store[i]

\* C4, the success: the controller is left with (P, false) and P's entry in the
\* local list has the new x and y
C4_RelocationResolved ==
    \A c \in BagToSet(pending) :
        (c.kind = "coord" /\ Resumed(c, "ok")) =>
            /\ editingPointId' = c.pointId
            /\ ~isSelectingLocation'
            /\ Len(allPoints') = Len(allPoints)
            /\ \A i \in 1..Len(allPoints) :
                   allPoints'[i] = IF allPoints[i].id = c.pointId
                                   THEN c.data
                                   ELSE allPoints[i]

\* C4: a successful relocation of P takes (editingPointId, isSelectingLocation)
\* from (P, true) at the click to (P, false), sends the store an update of exactly
\* x and y of P, and sets P's x and y in the local list to the clamped percentages
\* of the click.
C4_Relocation ==
    /\ [][C4_RelocationIssued]_vars
    /\ [][C4_RelocationStored]_vars
    /\ [][C4_RelocationResolved]_vars

\* C4 witness: point 1 has been moved by a click left of the image (x clamped
\* to 0, y = 40) and is being edited, relocation mode off.
C4_Witness ==
    /\ toast = "Point Moved"
    /\ editingPointId = 1
    /\ ~isSelectingLocation
    /\ find(allPoints, 1).x = 0
    /\ find(allPoints, 1).y = 40
    /\ find(store, 1).x = 0

\* C5, the click: in add mode with category C a map click issues one insert of
\* {name "New Recycling Point", category C, x, y, description ""}, x and y the
\* clamped percentages of the click.
C5_InsertIssued ==
    \A xOnImage \in ClickXs, yOnImage \in ClickYs :
        (/\ handleMapClick(xOnImage, yOnImage)
         /\ isAddingNewPointMode
         /\ categoryForNewPoint # "") =>
            \E c \in BagToSet(pending') :
                /\ Issued(c)
                /\ c.kind = "insert"
                /\ c.fields = {"name", "category", "x", "y", "description"}
                /\ c.data = [id |-> NULL,
                             name |-> "New Recycling Point",
                             category |-> categoryForNewPoint,
                             x |-> Percent(xOnImage, imageWidth, currentScale),
                             y |-> Percent(yOnImage, imageHeight, currentScale),
                             description |-> ""]

\* C5, the success: the returned point (the sent fields and the new id) is
\* appended to the local list and is the selected and the edited point; add mode
\* is off and the category of the next new point is empty.
C5_InsertResolved ==
    \A c \in BagToSet(pending) :
        (c.kind = "insert" /\ Resumed(c, "ok")) =>
            /\ c.data.id # NULL
            /\ find(allPoints, c.data.id) = NoPoint
            /\ allPoints' = Append(allPoints, c.data)
            /\ editingPointId' = c.data.id
            /\ selectedPoint' = c.data
            /\ ~isAddingNewPointMode'
            /\ categoryForNewPoint' = ""

C7_DeleteIssued ==
    (handleDeletePoint /\ find(allPoints, selectedPoint.id) # NoPoint) =>
        /\ \E c \in BagToSet(pending') :
               /\ Issued(c)
               /\ c.kind = "delete"
               /\ c.pointId = selectedPoint.id
        /\ UNCHANGED <<allPoints, selectedPoint, editingPointId, isSelectingLocation,
                       isAddingNewPointMode>>

\* C7, the order: a point leaves the local list only in the continuation of a
\* delete of that point that the store has carried out, and that step closes the
\* dialog
C7_DeleteOnlyAfterStore ==
    \A i \in 1..Len(allPoints) :
        find(allPoints', allPoints[i].id) = NoPoint =>
            /\ \E c \in BagToSet(pending) :
                   /\ c.kind = "delete"
                   /\ c.pointId = allPoints[i].id
                   /\ Resumed(c, "ok")
                   /\ ~HasDoc(c.pointId)
            /\ selectedPoint' = NoPoint
            /\ editingPointId' = NULL
            /\ ~isSelectingLocation'
            /\ ~dialogOpen'

\* C7, the success: the continuation of a delete the store has carried out takes
\* the point off the list and closes the dialog
C7_DeleteResolved ==
    \A c \in BagToSet(pending) :
        (c.kind = "delete" /\ Resumed(c, "ok")) =>
            /\ find(allPoints', c.pointId) = NoPoint
            /\ selectedPoint' = NoPoint
            /\ editingPointId' = NULL
            /\ ~dialogOpen'

\* C7, the failure: the list, the selection and the edit state stay as they are
C7_DeleteFailed ==
    \A c \in BagToSet(pending) :
        (c.kind = "delete" /\ Resumed(c, "err")) =>
            UNCHANGED <<allPoints, selectedPoint, editingPointId, isSelectingLocation,
                        isAddingNewPointMode>>

\* C7: deleting P sends delete(P); the list loses P and the dialog closes only
\* after the store's delete has succeeded; when it fails the list still has P and
\* the selection and the edit state are unchanged.
C7_Delete ==
    /\ [][C7_DeleteIssued]_vars
    /\ [][C7_DeleteOnlyAfterStore]_vars
    /\ [][C7_DeleteResolved]_vars
    /\ [][C7_DeleteFailed]_vars

\* C7 witness: a delete of point 1 has failed (P is still listed and edited), a
\* second one has succeeded
C7_Witness ==
    /\ toast = "Point Deleted"
    /\ allPoints = << >>
    /\ store = << >>
    /\ selectedPoint = NoPoint
    /\ editingPointId = NULL
    /\ nCalls = 3
    /\ requests = 3

\* C8, the handler: what handleToggleEditMode(null) leaves, in the current state
C8_ToggleNullResult ==
    LET after == handleToggleEditMode(NULL)
    IN  /\ after.editingPointId = NULL
        /\ ~after.isSelectingLocation
        /\ ~after.isAddingNewPointMode
        /\ after.selectedPoint = selectedPoint

\* C8, the call: "Finish Editing" is toggle-edit(null)
C8_FinishEditing ==
    handleFinishEditing =>
        /\ editingPointId' = NULL
        /\ ~isSelectingLocation'
        /\ ~isAddingNewPointMode'
        /\ UNCHANGED <<selectedPoint, allPoints>>

\* C8: toggle-edit(null), from any reachable state, leaves editingPointId null,
\* isSelectingLocation false and isAddingNewPointMode false, and does not change
\* selectedPoint or the point list.
C8_ToggleEditNull ==
    /\ []C8_ToggleNullResult
    /\ [][C8_FinishEditing]_vars

\* C8 witness: editing was finished through toggle-edit(null); the point is still
\* selected
C8_Witness ==
    /\ lastOp = "handleFinishEditing"
    /\ toast = "Edits Saved"
    /\ editingPointId = NULL
    /\ selectedPoint # NoPoint
    /\ find(allPoints, selectedPoint.id) = selectedPoint

\* C9: toggle-edit with the id being edited, not relocating, leaves edit mode;
\* with another id X it sets editingPointId to X, clears isSelectingLocation and
\* sets selectedPoint to the list's entry X, so that the selected point's id is
\* editingPointId.  Stated of the dialog's Edit button, which passes the selected
\* point's id.
C9_ToggleEditSelectsEntry ==
    /\ (editingPointId # NULL /\ ~isSelectingLocation) =>
           handleToggleEditMode(editingPointId).editingPointId = NULL
    /\ lastOp = "handleEditButtonClick" =>
           /\ editingPointId # NULL
           /\ ~isSelectingLocation
           /\ selectedPoint # NoPoint
           /\ selectedPoint.id = editingPointId

\* C10: Escape while adding clears the mode flags, resets the category, calls no
\* store operation and leaves the point list as it is.
C10_EscapeCancelsAdd ==
    [][(handleKeyDown /\ isAddingNewPointMode) =>
          /\ ~isAddingNewPointMode'
          /\ ~isSelectingLocation'
          /\ categoryForNewPoint' = ""
          /\ toast' = "Add Point Cancelled"
          /\ UNCHANGED <<pending, nCalls, requests, store, allPoints>>]_vars

\* C10 witness: add mode was left by Escape while an insert was still in flight
C10_Witness ==
    /\ lastOp = "handleKeyDown"
    /\ toast = "Add Point Cancelled"
    /\ ~isAddingNewPointMode
    /\ ~isSelectingLocation
    /\ categoryForNewPoint = ""
    /\ \E c \in BagToSet(pending) : c.kind = "insert"

\* The filter panel over a collection with points of several categories: the
\* checkboxes of CategoryFilter, the reset button, and the initial fetch.
FilterDocs ==
    << [id |-> 1, name |-> "Depot", category |-> "paper", x |-> 50, y |-> 50, description |-> ""],
       [id |-> 2, name |-> "Bottle bank", category |-> "glass", x |-> 20, y |-> 80, description |-> ""],
       [id |-> 3, name |-> "Kiosk", category |-> "paper", x |-> 70, y |-> 10, description |-> ""] >>

InitFilter ==
    /\ db \in BOOLEAN
    /\ currentScale = 10
    /\ store \in {InitialDocs, FilterDocs}
    /\ nextDocId = Len(store) + 1
    /\ isClient = FALSE
    /\ isLoading = TRUE
    /\ error = NoError
    /\ allPoints = <<>>
    /\ selectedCategories = <<>>
    /\ selectedPoint = NoPoint
    /\ editingPointId = NULL
    /\ isSelectingLocation = FALSE
    /\ isAddingNewPointMode = FALSE
    /\ categoryForNewPoint = ""
    /\ showProblemReportForm = FALSE
    /\ pending = EmptyBag
    /\ nCalls = 0
    /\ requests = 0
    /\ toast = ""
    /\ lastOp = "init"

Filter ==
    \/ \E categoryId \in Range(INITIAL_CATEGORIES) : handleCategoryChange(categoryId)
    \/ resetFilters

ServiceFilter ==
    \/ \E c \in BagToSet(pending) : StoreOk(c)
    \/ \E c \in BagToSet(pending) : StoreFail(c)
    \/ \E c \in BagToSet(pending) : ResolveFetch(c)

NextFilter ==
    \/ Mount
    \/ ServiceFilter
    \/ Filter

SpecFilter == InitFilter /\ [][NextFilter]_vars

\* A collection with documents this client did not write: one without a category
\* field, one whose category is no id of the registry, and a regular one.
ForeignDocs ==
    << [id |-> 1, name |-> "Depot", x |-> 50, y |-> 50, description |-> ""],
       [id |-> 2, name |-> "Battery box", category |-> "batteries", x |-> 20, y |-> 80,
        description |-> ""],
       [id |-> 3, name |-> "Kiosk", category |-> "paper", x |-> 70, y |-> 10,
        description |-> ""] >>

InitForeign ==
    /\ db \in BOOLEAN
    /\ currentScale = 10
    /\ store = ForeignDocs
    /\ nextDocId = Len(store) + 1
    /\ isClient = FALSE
    /\ isLoading = TRUE
    /\ error = NoError
    /\ allPoints = <<>>
    /\ selectedCategories = <<>>
    /\ selectedPoint = NoPoint
    /\ editingPointId = NULL
    /\ isSelectingLocation = FALSE
    /\ isAddingNewPointMode = FALSE
    /\ categoryForNewPoint = ""
    /\ showProblemReportForm = FALSE
    /\ pending = EmptyBag
    /\ nCalls = 0
    /\ requests = 0
    /\ toast = ""
    /\ lastOp = "init"

SpecForeign == InitForeign /\ [][NextFilter]_vars

-----------------------------------------------------------------------------
(* The service on its own: its four functions called by any caller.         *)

\* the arguments the four functions are called with
ServicePointIds == {1, 2}
ServicePointData ==
    [id |-> NULL, name |-> "New Recycling Point", category |-> "glass",
     x |-> 10, y |-> 90, description |-> ""]
ServiceUpdates ==
    [id |-> NULL, name |-> "Bin", category |-> "paper", x |-> 50, y |-> 50,
     description |-> ""]

getRecyclingPointsFromDB ==
    /\ CanIssue
    /\ Issue(Call("fetch", NULL, {}, NoPoint, NoPoint, NULL))
    /\ Note("getRecyclingPointsFromDB", NULL, "")
    /\ UNCHANGED <<db, currentScale, store, nextDocId, isClient, isLoading, error, allPoints,
                   selectedCategories, selectedPoint, editingPointId,
                   isSelectingLocation, isAddingNewPointMode, categoryForNewPoint,
                   showProblemReportForm>>

addRecyclingPointToDB(pointData) ==
    /\ CanIssue
    /\ Issue(Call("insert", NULL, PointFields, pointData, NoPoint, NULL))
    /\ Note("addRecyclingPointToDB", NULL, "")
    /\ UNCHANGED <<db, currentScale, store, nextDocId, isClient, isLoading, error, allPoints,
                   selectedCategories, selectedPoint, editingPointId,
                   isSelectingLocation, isAddingNewPointMode, categoryForNewPoint,
                   showProblemReportForm>>

updateRecyclingPointInDB(pointId, updates) ==
    /\ CanIssue
    /\ Issue(Call("name", pointId, {"name"}, [updates EXCEPT !.id = pointId],
                  NoPoint, NULL))
    /\ Note("updateRecyclingPointInDB", pointId, "")
    /\ UNCHANGED <<db, currentScale, store, nextDocId, isClient, isLoading, error, allPoints,
                   selectedCategories, selectedPoint, editingPointId,
                   isSelectingLocation, isAddingNewPointMode, categoryForNewPoint,
                   showProblemReportForm>>

deleteRecyclingPointFromDB(pointId) ==
    /\ CanIssue
    /\ Issue(Call("delete", pointId, {}, NoPoint, NoPoint, NULL))
    /\ Note("deleteRecyclingPointFromDB", pointId, "")
    /\ UNCHANGED <<db, currentScale, store, nextDocId, isClient, isLoading, error, allPoints,
                   selectedCategories, selectedPoint, editingPointId,
                   isSelectingLocation, isAddingNewPointMode, categoryForNewPoint,
                   showProblemReportForm>>

\* the promise of call c is settled: its caller has the result or the error
Settled(c) ==
    /\ c.phase \in {"ok", "err"}
    /\ pending' = pending (-) SetToBag({c})
    /\ Note("settled", c.pointId, "")
    /\ UNCHANGED <<db, currentScale, store, nextDocId, isClient, isLoading, error, allPoints,
                   selectedCategories, selectedPoint, editingPointId,
                   isSelectingLocation, isAddingNewPointMode, categoryForNewPoint,
                   showProblemReportForm, nCalls, requests>>

NextService ==
    \/ getRecyclingPointsFromDB
    \/ addRecyclingPointToDB(ServicePointData)
    \/ \E pointId \in ServicePointIds : updateRecyclingPointInDB(pointId, ServiceUpdates)
    \/ \E pointId \in ServicePointIds : deleteRecyclingPointFromDB(pointId)
    \/ \E c \in BagToSet(pending) : StoreOk(c)
    \/ \E c \in BagToSet(pending) : StoreFail(c)
    \/ \E c \in BagToSet(pending) : Settled(c)

SpecService == Init /\ [][NextService]_vars

-----------------------------------------------------------------------------
(* RecyclingMap: the zoom controls and clicks at any zoom.                  *)

\* setCurrentScale(s => Math.min(s + 0.2, 3))
handleZoomIn ==
    /\ Rendered
    /\ currentScale' = Min(currentScale + 2, 30)
    /\ Note("handleZoomIn", NULL, "")
    /\ NoIssue
    /\ UNCHANGED <<db, store, nextDocId, isClient, isLoading, error, allPoints,
                   selectedCategories, selectedPoint, editingPointId,
                   isSelectingLocation, isAddingNewPointMode, categoryForNewPoint,
                   showProblemReportForm>>

\* handleZoomOut without Math.max
handleZoomOut_NoFloor ==
    /\ Rendered
    /\ currentScale' = currentScale - 2
    /\ Note("handleZoomOut", NULL, "")
    /\ NoIssue
    /\ UNCHANGED <<db, store, nextDocId, isClient, isLoading, error, allPoints,
                   selectedCategories, selectedPoint, editingPointId,
                   isSelectingLocation, isAddingNewPointMode, categoryForNewPoint,
                   showProblemReportForm>>

\* setCurrentScale(s => Math.max(s - 0.2, 0.5))
handleZoomOut ==
    /\ Rendered
    /\ currentScale' = Max(currentScale - 2, 5)
    /\ Note("handleZoomOut", NULL, "")
    /\ NoIssue
    /\ UNCHANGED <<db, store, nextDocId, isClient, isLoading, error, allPoints,
                   selectedCategories, selectedPoint, editingPointId,
                   isSelectingLocation, isAddingNewPointMode, categoryForNewPoint,
                   showProblemReportForm>>

\* setCurrentScale(1); the re-centring only scrolls the viewport
handleReset ==
    /\ Rendered
    /\ currentScale' = 10
    /\ Note("handleReset", NULL, "")
    /\ NoIssue
    /\ UNCHANGED <<db, store, nextDocId, isClient, isLoading, error, allPoints,
                   selectedCategories, selectedPoint, editingPointId,
                   isSelectingLocation, isAddingNewPointMode, categoryForNewPoint,
                   showProblemReportForm>>

\* pointer positions relative to the displayed image, whose size is
\* imageWidth * currentScale by imageHeight * currentScale: its top-left corner,
\* its centre, and a position left of it and below it
MapClicks ==
    { << 0, 0 >>,
      << (imageWidth * currentScale) \div 20, (imageHeight * currentScale) \div 20 >>,
      << -40, (imageHeight * currentScale) \div 10 + 40 >> }

\* the map with its zoom controls, the add panel, and the relocation of the point
\* just placed
NextMap ==
    \/ Mount
    \/ \E c \in BagToSet(pending) : StoreOk(c)
    \/ \E c \in BagToSet(pending) : StoreFail(c)
    \/ \E c \in BagToSet(pending) : ResolveFetch(c)
    \/ \E c \in BagToSet(pending) : ResolvePlaceNewPoint(c)
    \/ \E c \in BagToSet(pending) : ResolveCoordinateChange(c)
    \/ handleZoomIn
    \/ handleZoomOut
    \/ handleReset
    \/ \E value \in CategoryChoices : SelectCategoryForNewPoint(value)
    \/ handleInitiateAddPoint
    \/ handleChangeLocationStart
    \/ \E click \in MapClicks : handleMapClick(click[1], click[2])

SpecMap == Init /\ [][NextMap]_vars

-----------------------------------------------------------------------------
(* Escape, failures, marker clicks, filters, mode invariants.               *)

\* C11, case 1: adding; the add is cancelled and nothing of the other cases happens
C11_EscapeAdding ==
    /\ ~isAddingNewPointMode'
    /\ categoryForNewPoint' = ""
    /\ UNCHANGED <<isSelectingLocation, editingPointId, selectedPoint>>

\* C11, case 2: relocating; the dialog reopens on the list's entry of editingPointId
C11_EscapeRelocating ==
    /\ ~isSelectingLocation'
    /\ editingPointId' = editingPointId
    /\ selectedPoint' = find(allPoints, editingPointId)
    /\ selectedPoint'.id = editingPointId
    /\ dialogOpen'
    /\ UNCHANGED <<isAddingNewPointMode, categoryForNewPoint>>

\* C11, case 3: a point is viewed; the dialog closes
C11_EscapeViewing ==
    /\ selectedPoint' = NoPoint
    /\ editingPointId' = NULL
    /\ ~dialogOpen'
    /\ UNCHANGED <<isSelectingLocation, isAddingNewPointMode, categoryForNewPoint>>

\* C11: Escape applies exactly one case, in priority order: adding, cancel the add;
\* else relocating, clear isSelectingLocation, keep editingPointId and select the
\* list's entry of editingPointId so that the dialog reopens on it; else a point is
\* selected and none is edited, close the dialog; in every other state Escape
\* changes no controller state.
C11_EscapePriority ==
    [][handleKeyDown =>
          /\ IF isAddingNewPointMode THEN C11_EscapeAdding
             ELSE IF isSelectingLocation THEN C11_EscapeRelocating
             ELSE IF selectedPoint # NoPoint /\ editingPointId = NULL THEN C11_EscapeViewing
             ELSE UNCHANGED <<selectedPoint, editingPointId, isSelectingLocation,
                              isAddingNewPointMode, categoryForNewPoint>>
          /\ UNCHANGED <<allPoints, pending, store>>]_vars

FieldOf(c) ==
    CASE c.kind = "name" -> c.data.name
      [] c.kind = "category" -> c.data.category
      [] c.kind = "description" -> c.data.description

\* the same field of a point
FieldIn(c, point) ==
    CASE c.kind = "name" -> point.name
      [] c.kind = "category" -> point.category
      [] c.kind = "description" -> point.description

FieldKinds == {"name", "category", "description"}

\* C13 as the specification has it: when the store update of a name, category or
\* description edit of P fails, P's entry in the local list holds the new value.
C13_FailedEditStaysApplied ==
    [][\A c \in BagToSet(pending) :
          (c.kind \in FieldKinds /\ Resumed(c, "err")) =>
              FieldIn(c, find(allPoints', c.pointId)) = FieldOf(c)]_vars

\* C13, the issue: the handler sets no local state before the store has answered
C13_EditNotAppliedAtIssue ==
    \A c \in BagToSet(pending') :
        (c.kind \in FieldKinds /\ Issued(c)) =>
            UNCHANGED <<allPoints, selectedPoint, editingPointId>>

\* C13, the failure: the catch branch sets no local state
C13_EditNotAppliedOnFailure ==
    \A c \in BagToSet(pending) :
        (c.kind \in FieldKinds /\ Resumed(c, "err")) =>
            UNCHANGED <<allPoints, selectedPoint, editingPointId, isSelectingLocation,
                        isAddingNewPointMode, store>>

\* C13, the only writers: the local list changes only in the continuation of a
\* call that the store has carried out
C13_EditAppliedOnSuccessOnly ==
    allPoints' # allPoints =>
        \E d \in BagToSet(pending) : Resumed(d, "ok")

\* C13, amended: a name, category or description edit of P is applied to the local
\* list only when its store update has succeeded; when the update fails the list,
\* the selected point and the edit state are left as they are, so P's entry holds
\* the value it had, which is the pre-edit value unless another call has set it.
C13_FailedEditNeverApplied ==
    /\ [][C13_EditNotAppliedAtIssue]_vars
    /\ [][C13_EditNotAppliedOnFailure]_vars
    /\ [][C13_EditAppliedOnSuccessOnly]_vars

\* C13 witness: renaming point 1 has failed at the store and the list, the selected
\* point and the store still have the old name
C13_Witness ==
    /\ toast = "Error Renaming Point"
    /\ db
    /\ find(allPoints, 1).name = "Depot"
    /\ selectedPoint.id = 1
    /\ selectedPoint.name = "Depot"
    /\ find(store, 1).name = "Depot"

\* what a marker click in a placement mode must leave alone
C14_Frame ==
    UNCHANGED <<selectedPoint, editingPointId, isSelectingLocation, isAddingNewPointMode,
                categoryForNewPoint, allPoints, pending, nCalls, requests, store>>

C15_MarkerClickWhileEditing ==
    [][\A Q \in Range(allPoints) :
          (MarkerClick(Q) /\ ~isSelectingLocation /\ ~isAddingNewPointMode) =>
              /\ (editingPointId # NULL /\ Q.id # editingPointId) =>
                     /\ UNCHANGED <<selectedPoint, editingPointId>>
                     /\ toast' = "Edit Mode Active"
              /\ editingPointId = NULL =>
                     /\ selectedPoint' = Q
                     /\ editingPointId' = NULL
              /\ UNCHANGED <<allPoints, pending, store>>]_vars

\* C15 witness: point 2 is edited and selected, and the click on the marker of
\* point 1 was refused
C15_Witness ==
    /\ lastOp = "handlePointSelect"
    /\ toast = "Edit Mode Active"
    /\ editingPointId = 2
    /\ selectedPoint.id = 2
    /\ find(allPoints, 1) # NoPoint
    /\ ~isSelectingLocation
    /\ ~isAddingNewPointMode

\* the points of a list whose category is in a set, in the order of the list
RECURSIVE PointsOfCategories(_, _)
PointsOfCategories(points, cats) ==
    IF points = << >>
    THEN << >>
    ELSE IF Head(points).category \in cats
         THEN <<Head(points)>> \o PointsOfCategories(Tail(points), cats)
         ELSE PointsOfCategories(Tail(points), cats)

\* C16, the view: the visible points are the local points whose category is
\* selected, in list order; none when no category is selected
C16_VisibleAreSelected ==
    /\ filteredPoints = PointsOfCategories(allPoints, Range(selectedCategories))
    /\ selectedCategories = << >> => filteredPoints = << >>
    /\ Range(selectedCategories) \subseteq Range(INITIAL_CATEGORIES)

\* C16, load and reset: the selected set becomes the whole registry
C16_LoadAndReset ==
    (Mount \/ resetFilters) => Range(selectedCategories') = Range(INITIAL_CATEGORIES)

\* C16: after any sequence of category-filter toggles and filter resets the visible
\* points are exactly the local points whose category is in the selected set, in
\* list order, and are empty when the selected set is empty; at load and after a
\* reset the selected set is the full category registry.
C16_FilteredPoints ==
    /\ []C16_VisibleAreSelected
    /\ [][C16_LoadAndReset]_vars

\* C16 witness: paper was unchecked and checked again and glass is unchecked; of
\* the three points the two paper ones are visible, in list order
C16_Witness ==
    /\ lastOp = "handleCategoryChange"
    /\ selectedCategories = <<"plastic", "electronics", "metal", "organic", "paper">>
    /\ Len(allPoints) = 3
    /\ Len(filteredPoints) = 2
    /\ filteredPoints[1].id = 1
    /\ filteredPoints[2].id = 3

\* C17: in every reachable state, if editingPointId is non-null then a point is
\* selected and its id is editingPointId.
C17_EditedPointIsSelected ==
    editingPointId # NULL =>
        /\ selectedPoint # NoPoint
        /\ selectedPoint.id = editingPointId

\* C18: in every reachable state isSelectingLocation implies that editingPointId is
\* non-null, so a map click while relocating has a subject: it calls
\* handlePointCoordinateChange for editingPointId.
C18_RelocationHasSubject ==
    isSelectingLocation => editingPointId # NULL

\* C18 witness: the map was clicked while relocating point 1, and the update
\* issued is for the point being edited
C18_Witness ==
    /\ isSelectingLocation
    /\ editingPointId = 1
    /\ lastOp = "handlePointCoordinateChange"
    /\ \E c \in BagToSet(pending) : c.kind = "coord" /\ c.pointId = editingPointId

\* C19, the mode: isAddingNewPointMode implies a non-empty categoryForNewPoint
C19_AddModeHasCategory ==
    isAddingNewPointMode => categoryForNewPoint # ""

\* C19, the inserts: every insert sent carries a category of the registry
C19_InsertsHaveCategory ==
    \A c \in BagToSet(pending) :
        c.kind = "insert" => c.data.category \in Range(INITIAL_CATEGORIES)

\* C19: in every reachable state isAddingNewPointMode implies that
\* categoryForNewPoint is non-empty; hence every insert sent to the store carries a
\* category id of the category registry.
C19_AddModeCategory ==
    /\ C19_AddModeHasCategory
    /\ C19_InsertsHaveCategory

\* C19 witness: in add mode with category glass the map was clicked and the insert
\* in flight carries that category
C19_Witness ==
    /\ isAddingNewPointMode
    /\ categoryForNewPoint = "glass"
    /\ lastOp = "handlePlaceNewPoint"
    /\ \E c \in BagToSet(pending) : c.kind = "insert" /\ c.data.category = "glass"

PlacementKinds == {"insert", "coord"}

\* the local effects of a placement call that the store has carried out
PlacementApplied(c) ==
    IF c.kind = "insert"
    THEN /\ allPoints' = Append(allPoints, c.data)
         /\ selectedPoint' = c.data
         /\ editingPointId' = c.data.id
    ELSE /\ allPoints' = mapReplace(allPoints, c.pointId, c.data)
         /\ selectedPoint' = c.data
         /\ editingPointId' = c.pointId

\* C20, no abort: a placement call leaves the calls in flight only when the store
\* answers it or when its continuation runs; no handler removes it
C20_NotAborted ==
    \A c \in BagToSet(pending) :
        (c.kind \in PlacementKinds /\ CopiesIn(c, pending') < CopiesIn(c, pending)) =>
            IF c.phase = "sent"
            THEN \E d \in BagToSet(pending') :
                     /\ d.phase \in {"ok", "err"}
                     /\ pending' = Answered(c, d)
            ELSE Resumed(c, c.phase)

\* C20, the effects: the continuation of a placement call that succeeded appends or
\* updates the point and sets selection and editingPointId, whatever the modes are
C20_StillApplied ==
    \A c \in BagToSet(pending) :
        (c.kind \in PlacementKinds /\ Resumed(c, "ok")) => PlacementApplied(c)

\* C20, the continuation is never blocked: an answered placement call can resume
\* in every state
C20_CanResume ==
    \A c \in BagToSet(pending) :
        (c.kind \in PlacementKinds /\ c.phase \in {"ok", "err"}) =>
            IF c.kind = "insert"
            THEN ENABLED ResolvePlaceNewPoint(c)
            ELSE ENABLED ResolveCoordinateChange(c)

\* C20: cancelling a mode does not abort a store call in flight: when Escape, or
\* another change of mode, comes after a placement click and before the call
\* resolves, the call stays in flight and its resolution still applies its local
\* effects (the point appended or updated, selection and editingPointId set).
C20_CancelDoesNotAbort ==
    /\ []C20_CanResume
    /\ [][C20_NotAborted]_vars
    /\ [][C20_StillApplied]_vars

\* C20 witness: add mode was cancelled by Escape after the click; the insert has
\* been carried out by the store, waits in flight and can resume
C20_Witness ==
    /\ lastOp = "handleKeyDown"
    /\ toast = "Add Point Cancelled"
    /\ ~isAddingNewPointMode
    /\ allPoints = InitialDocs
    /\ \E c \in BagToSet(pending) :
           /\ c.kind = "insert"
           /\ c.phase = "ok"
           /\ find(store, c.data.id) = c.data
           /\ ENABLED ResolvePlaceNewPoint(c)

-----------------------------------------------------------------------------
(* Concurrent calls, dialog close, failures, the service's errors.          *)

\* a user action that, by the handler's own tests, reaches the await of a mutation
C21_MutationTriggered ==
    \/ /\ \E xOnImage \in ClickXs, yOnImage \in ClickYs :
              handleMapClick(xOnImage, yOnImage)
       /\ \/ isAddingNewPointMode /\ categoryForNewPoint # ""
          \/ /\ ~isAddingNewPointMode
             /\ isSelectingLocation
             /\ find(allPoints, editingPointId) # NoPoint
    \/ /\ \/ \E newName \in NewNames : handlePointNameChange(newName)
          \/ \E newDescription \in NewDescriptions :
                 handlePointDescriptionChange(newDescription)
          \/ \E newCategoryId \in CategoryChoices : handlePointCategoryChange(newCategoryId)
          \/ handleDeletePoint
       /\ find(allPoints, selectedPoint.id) # NoPoint

\* one more call is in flight, the others are as they were, and with a store
\* handle the new call is a request already sent
C21_OwnCall ==
    /\ BagCardinality(pending') = BagCardinality(pending) + 1
    /\ \A c \in BagToSet(pending) : CopiesIn(c, pending') >= CopiesIn(c, pending)
    /\ nCalls' = nCalls + 1
    /\ requests' = IF db THEN requests + 1 ELSE requests
    /\ db => \E c \in BagToSet(pending') :
                 /\ c.phase = "sent"
                 /\ CopiesIn(c, pending') = CopiesIn(c, pending) + 1

\* C21: a mutation triggered while an earlier one is unresolved is sent to the
\* store as its own call, neither queued behind the first, nor merged with it, nor
\* rejected; two placement clicks before the first insert resolves give two inserts.
C21_ConcurrentMutations ==
    [][(C21_MutationTriggered /\ pending # EmptyBag) => C21_OwnCall]_vars

\* C21 witness: two clicks at the same place in add mode have put two equal
\* inserts in flight, both sent
C21_Witness ==
    /\ lastOp = "handlePlaceNewPoint"
    /\ requests = 3
    /\ \E c \in BagToSet(pending) :
           /\ c.kind = "insert"
           /\ c.phase = "sent"
           /\ CopiesIn(c, pending) = 2

\* C22 as the specification has it: closing the dialog leaves no point selected,
\* editingPointId null, both mode flags false and categoryForNewPoint empty.
C22_CloseResetsAll ==
    [][handleDialogClose =>
          /\ selectedPoint' = NoPoint
          /\ editingPointId' = NULL
          /\ ~isSelectingLocation'
          /\ ~isAddingNewPointMode'
          /\ categoryForNewPoint' = ""]_vars

\* C22, amended: closing the dialog leaves no point selected, editingPointId null
\* and both mode flags false; categoryForNewPoint is left as it is, so a category
\* chosen in the add panel before the dialog was opened is still chosen.
C22_CloseResetsSelection ==
    [][handleDialogClose =>
          /\ selectedPoint' = NoPoint
          /\ editingPointId' = NULL
          /\ ~isSelectingLocation'
          /\ ~isAddingNewPointMode'
          /\ ~dialogOpen'
          /\ categoryForNewPoint' = categoryForNewPoint
          /\ UNCHANGED <<allPoints, pending, store>>]_vars

\* C22 witness: the dialog of an edited point was closed while a category was
\* chosen in the add panel
C22_Witness ==
    /\ lastOp = "handleDialogClose"
    /\ selectedPoint = NoPoint
    /\ editingPointId = NULL
    /\ ~isSelectingLocation
    /\ ~isAddingNewPointMode
    /\ categoryForNewPoint = "glass"

\* C23, notification: the continuation of a failed call shows a toast
C23_FailureNotified ==
    \A c \in BagToSet(pending) : Resumed(c, "err") => toast' # ""

\* C23, the continuation of a failed call can always run
C23_FailureResumes ==
    \A c \in BagToSet(pending) :
        c.phase = "err" =>
            \/ ENABLED ResolveFetch(c)
            \/ ENABLED ResolveFieldChange(c)
            \/ ENABLED ResolveDeletePoint(c)
            \/ ENABLED ResolvePlaceNewPoint(c)
            \/ ENABLED ResolveCoordinateChange(c)

\* C23, no retry: neither the store's answer nor a continuation issues a call;
\* calls are issued by the mount effect and by the handlers of user actions only
C23_NoAutomaticCall ==
    (nCalls' # nCalls \/ requests' # requests
       \/ BagCardinality(pending') > BagCardinality(pending)) =>
        /\ ~Service
        /\ Mount \/ Dialog \/ Page

\* C23: every failed store call (fetch, insert, update, delete) produces a visible
\* notification, and no store call is issued without an action of the user (the
\* page load for the fetch): a failed call is never retried automatically.
C23_FailuresNotifiedNoRetry ==
    /\ []C23_FailureResumes
    /\ [][C23_FailureNotified]_vars
    /\ [][C23_NoAutomaticCall]_vars

\* C23 witness: with a store handle, the insert has failed at the store and the
\* failure was shown; the fetch and the insert are the only calls made
C23_Witness ==
    /\ db
    /\ toast = "Error Adding Point"
    /\ pending = EmptyBag
    /\ nCalls = 2
    /\ requests = 2
    /\ store = InitialDocs

\* C24, the failure: the continuation of a failed fetch sets the error, ends the
\* loading and leaves the list empty
C24_FetchFailed ==
    \A c \in BagToSet(pending) :
        (c.kind = "fetch" /\ Resumed(c, "err")) =>
            /\ error' # NoError
            /\ ~isLoading'
            /\ allPoints' = << >>

\* C24, the error state: nothing of the page is offered and no call is in flight
C24_ErrorState ==
    error # NoError =>
        /\ ~isLoading
        /\ allPoints = << >>
        /\ ~Rendered
        /\ ~DialogShown
        /\ ~ENABLED Page
        /\ ~ENABLED Dialog
        /\ selectedPoint = NoPoint
        /\ pending = EmptyBag
        /\ nCalls = 1

\* C24, no way out: in the error state no step changes the error, the list, the
\* store or the calls
C24_ErrorStateStays ==
    error # NoError =>
        UNCHANGED <<error, isLoading, allPoints, store, pending, nCalls, requests,
                    selectedPoint, editingPointId, isSelectingLocation,
                    isAddingNewPointMode, categoryForNewPoint>>

\* C24: if the initial fetch fails the session ends in an error state (error
\* non-null, isLoading false, point list empty) in which the map, the add panel and
\* the dialog are not offered, so that no store mutation can be issued until a
\* reload.
C24_FetchFailureIsFinal ==
    /\ []C24_ErrorState
    /\ [][C24_FetchFailed]_vars
    /\ [][C24_ErrorStateStays]_vars

\* C24 witness: the fetch request has failed and Escape was pressed on the error
\* page
C24_Witness ==
    /\ db
    /\ error # NoError
    /\ ~isLoading
    /\ allPoints = << >>
    /\ requests = 1
    /\ lastOp = "handleKeyDown"

\* C25, no handle: without db no request was ever sent, the store is untouched and
\* every call has failed with the "not initialized" error and no result
C25_NoHandleNoRequest ==
    ~db =>
        /\ requests = 0
        /\ store = InitialDocs
        /\ \A c \in BagToSet(pending) :
              /\ c.phase = "err"
              /\ c.errMsg = NotInitialized
              /\ c.result = <<>>
              /\ c.data # NoPoint => c.data.id \in {NULL, c.pointId}

\* C25, failed request: a failed call has an error and no result, and with db the
\* error carries the message of its cause; a call with a result has no error
C25_FailedCarriesCause ==
    \A c \in BagToSet(pending) :
        /\ c.phase = "err" =>
              /\ c.errMsg # <<>>
              /\ c.result = <<>>
              /\ c.kind = "insert" => c.data.id = NULL
              /\ db => originalErrorMessage(FirestoreErrorMessage) \in Range(c.errMsg)
        /\ c.phase # "err" => c.errMsg = <<>>

\* C25, the failing step: the failure of a request changes nothing in the store
C25_FailureLeavesStore ==
    \A c \in BagToSet(pending) : StoreFail(c) => UNCHANGED <<store, nextDocId>>

\* C25: each of the four store operations (fetch-all, insert, update, delete) fails
\* with an error, without sending any request, when the store handle was never
\* established, and fails with an error that carries the cause's message when the
\* request itself fails; none of them returns a normal result in either case.
C25_ServiceFailures ==
    /\ []C25_NoHandleNoRequest
    /\ []C25_FailedCarriesCause
    /\ [][C25_FailureLeavesStore]_vars

\* C25 witness: without db an insert, an update and a delete have failed, and no
\* request was sent
C25_Witness ==
    /\ ~db
    /\ requests = 0
    /\ nCalls = 3
    /\ \A kind \in {"insert", "name", "delete"} :
          \E c \in BagToSet(pending) : c.kind = kind /\ c.phase = "err"

\* pointer offsets in px, from left of the image to far right of it
PixelOffsets == {-2000, -40, -1, 0, 1, 333, 750, 1000, 1500, 2000, 4500, 6000, 6001}

\* C26, the transform at the current scale: every offset gives a percentage within
\* [0, 100]; the corner gives 0, the centre 50, an offset before the image 0 and an
\* offset past it 100
C26_PercentInRange ==
    \A dimension \in {imageWidth, imageHeight} :
        /\ \A offset \in PixelOffsets :
              /\ Percent(offset, dimension, currentScale) \in 0..100
              /\ offset < 0 => Percent(offset, dimension, currentScale) = 0
              /\ offset * 10 > dimension * currentScale =>
                    Percent(offset, dimension, currentScale) = 100
        /\ Percent(0, dimension, currentScale) = 0
        /\ Percent((dimension * currentScale) \div 20, dimension, currentScale) = 50

\* C26, the writes: every x, y of an insert or a relocation, in flight or in the
\* store or in the list, is within [0, 100]
C26_WritesInRange ==
    /\ \A c \in BagToSet(pending) :
          c.kind \in {"insert", "coord"} => c.data.x \in 0..100 /\ c.data.y \in 0..100
    /\ \A i \in 1..Len(store) : store[i].x \in 0..100 /\ store[i].y \in 0..100
    /\ \A i \in 1..Len(allPoints) : allPoints[i].x \in 0..100 /\ allPoints[i].y \in 0..100

\* C26, the click: a map click that writes sends the percentages of its position
C26_ClickWritesPercent ==
    \A click \in MapClicks :
        (handleMapClick(click[1], click[2]) /\ nCalls' # nCalls) =>
            \E c \in BagToSet(pending') :
                /\ Issued(c)
                /\ c.data.x = Percent(click[1], imageWidth, currentScale)
                /\ c.data.y = Percent(click[2], imageHeight, currentScale)

\* C26: the percentage pair computed from a map click is always within [0,100] on
\* both axes for every pointer position and every reachable scale: the image's
\* top-left corner gives (0,0), the exact centre (50,50), a position outside the
\* image values clamped to 0 or 100; so every x,y this client writes to the store
\* (insert or relocation) is within [0,100].
C26_CoordinatesClamped ==
    /\ []C26_PercentInRange
    /\ []C26_WritesInRange
    /\ [][C26_ClickWritesPercent]_vars

\* C26 witness: zoomed in, a point was placed at the centre and then relocated to a
\* position left of the image and below it
C26_Witness ==
    /\ currentScale = 14
    /\ lastOp = "handlePointCoordinateChange"
    /\ \E i \in 1..Len(store) : store[i].id = 2 /\ store[i].x = 0 /\ store[i].y = 100
    /\ \E c \in BagToSet(pending) : c.kind = "coord" /\ c.phase = "ok" /\ c.orig.x = 50

\* C27, the range
C27_ScaleInRange == currentScale \in 5..30

\* C27, the steps: zoom-in adds 0.2 capped at 3.0, zoom-out subtracts 0.2 floored at
\* 0.5, reset gives 1.0, and nothing else changes the scale
C27_ZoomSteps ==
    /\ handleZoomIn =>
          currentScale' = IF currentScale + 2 <= 30 THEN currentScale + 2 ELSE 30
    /\ handleZoomOut =>
          currentScale' = IF currentScale - 2 >= 5 THEN currentScale - 2 ELSE 5
    /\ handleReset => currentScale' = 10
    /\ currentScale' # currentScale => handleZoomIn \/ handleZoomOut \/ handleReset

\* C27: after any sequence of zoom-in, zoom-out and reset actions the scale stays
\* within [0.5, 3.0]; zoom-in adds 0.2 capped at 3.0, zoom-out subtracts 0.2 floored
\* at 0.5, and reset sets the scale to exactly 1.0 from any scale.
C27_ZoomBounded ==
    /\ []C27_ScaleInRange
    /\ [][C27_ZoomSteps]_vars

\* C27 witness: zoomed out from 0.6, which is floored at 0.5, then in to 0.7
C27_Witness ==
    /\ currentScale = 7
    /\ lastOp = "handleZoomIn"

\* C28, the frame: a submission, blank or not, issues no call and leaves the store,
\* the list, the selection, editingPointId and the mode flags as they were
C28_ReportFrame ==
    \A blank \in BOOLEAN :
        handleProblemReportSubmit(blank) =>
            /\ UNCHANGED <<pending, nCalls, requests, store, allPoints, selectedPoint,
                           editingPointId, isSelectingLocation, isAddingNewPointMode,
                           categoryForNewPoint, selectedCategories, error>>
            /\ blank => toast' = "" /\ UNCHANGED showProblemReportForm

\* C28, the notification: a report that is not blank, for a point of the list, is
\* notified
C28_ReportNotified ==
    (handleProblemReportSubmit(FALSE) /\ find(allPoints, selectedPoint.id) # NoPoint) =>
        toast' = "Report Submitted"

\* C28: submitting a problem report issues no store call and changes neither the
\* point list nor the selection, editingPointId or mode flags; its only effect is a
\* notification; a report whose title or description is blank is not submitted at
\* all.
C28_ReportIsEphemeral ==
    /\ [][C28_ReportFrame]_vars
    /\ [][C28_ReportNotified]_vars

\* C28 witness: a report was submitted for the selected point
C28_Witness ==
    /\ lastOp = "handleProblemReportSubmit"
    /\ toast = "Report Submitted"
    /\ selectedPoint # NoPoint
    /\ ~showProblemReportForm

\* C29, the request: Delete for a point that the list no longer holds makes no call,
\* shows nothing and leaves the list, still without the id, and the store as they
\* were
C29_AbsentDelete ==
    (handleDeletePoint /\ find(allPoints, selectedPoint.id) = NoPoint) =>
        /\ UNCHANGED <<allPoints, store, pending, nCalls, requests, selectedPoint,
                       editingPointId>>
        /\ find(allPoints', selectedPoint.id) = NoPoint
        /\ toast' = ""

\* C29, the continuation: a delete that succeeded leaves the list without the id and
\* shows the success toast, whether or not the list still held the id
C29_DeleteResult ==
    \A c \in BagToSet(pending) :
        (c.kind = "delete" /\ Resumed(c, "ok")) =>
            /\ find(allPoints', c.pointId) = NoPoint
            /\ toast' = "Point Deleted"

\* C29: delete is idempotent for the caller: invoking delete for an id that is
\* already absent from the local list is treated as success-equivalent, leaving the
\* local list without that id and raising no error notification.
C29_DeleteIdempotent ==
    /\ [][C29_AbsentDelete]_vars
    /\ [][C29_DeleteResult]_vars

\* C29 witness: Delete was confirmed for a selected point that the list no longer
\* holds, after its first delete had completed
C29_Witness ==
    /\ lastOp = "handleDeletePoint"
    /\ selectedPoint # NoPoint
    /\ find(allPoints, selectedPoint.id) = NoPoint
    /\ \A i \in 1..Len(store) : store[i].id # selectedPoint.id
    /\ toast = ""

\* C30, the subject: while a relocation goes on, editingPointId does not change
C30_SubjectKept ==
    (isSelectingLocation /\ isSelectingLocation') => editingPointId' = editingPointId

\* C30, the click: a map click in a relocation sends a coordinate update for the
\* point the relocation was started for, which is the selected point
C30_ClickRelocatesSubject ==
    \A xOnImage \in ClickXs, yOnImage \in ClickYs :
        (handleMapClick(xOnImage, yOnImage) /\ isSelectingLocation /\ nCalls' # nCalls) =>
            \E c \in BagToSet(pending') :
                /\ Issued(c)
                /\ c.kind = "coord"
                /\ c.pointId = editingPointId

\* C30: the relocation subject is stable: from the moment relocation of point P
\* starts (isSelectingLocation becomes true with editingPointId = P) until
\* isSelectingLocation becomes false, editingPointId stays P, so the next empty-area
\* map click sends a coordinate update for P and for no other point, even when
\* another store call (such as an earlier insert) resolves in between.
C30_RelocationSubjectStable ==
    /\ [][C30_SubjectKept]_vars
    /\ [][C30_ClickRelocatesSubject]_vars

\* the local entry and the store's document of the same id agree on every field
SameFields(p, d) ==
    /\ p.name = d.name
    /\ p.category = d.category
    /\ p.x = d.x
    /\ p.y = d.y
    /\ p.description = d.description

\* C31: with every store call succeeding, once no call is in flight every point of
\* the local list has the same name, category, x, y and description as the store's
\* document with that id, for every interleaving of issue and resolution of edits
\* to the same point.
C31_ListConvergesToStore ==
    (db /\ pending = EmptyBag) =>
        \A i \in 1..Len(allPoints) :
            \E j \in 1..Len(store) :
                /\ store[j].id = allPoints[i].id
                /\ SameFields(allPoints[i], store[j])

\* C32: in every reachable state the selected point, if any, has an id that is
\* present in the local point list: the dialog never shows a point that has been
\* deleted locally, including when a relocation or field update of that point
\* resolves after its delete.
C32_SelectedPointInList ==
    selectedPoint # NoPoint => find(allPoints, selectedPoint.id) # NoPoint

\* C33, one continuation: the selected point becomes the updated point if it is the
\* updated point's now, and is left alone otherwise
C33_ResolutionTestsCurrent ==
    \A c \in BagToSet(pending) :
        (c.kind \in {"name", "category", "description"} /\ Resumed(c, "ok")) =>
            selectedPoint' = IF selectedPoint # NoPoint /\ selectedPoint.id = c.pointId
                             THEN c.data
                             ELSE selectedPoint

\* C33: when a name, category or description update of point P resolves, the
\* selected point is replaced by the updated P only if the point selected at that
\* moment is P; if the user has meanwhile closed the dialog or selected another
\* point, the resolution does not change which point is selected.
C33_ResolutionKeepsSelection == [][C33_ResolutionTestsCurrent]_vars

\* C34, the mutations: a call other than the mount's fetch is issued only when the
\* loading has ended and no fetch is in flight
C34_NoCallWhileLoading ==
    (nCalls' # nCalls /\ ~Mount) =>
        /\ isClient
        /\ ~isLoading
        /\ \A c \in BagToSet(pending) : c.kind # "fetch"
        /\ \A c \in BagToSet(pending') : Issued(c) => c.kind # "fetch"

\* C34, the fetch: it is the first call of the session, issued by the mount effect,
\* and its continuation finds the list empty and no other call issued
C34_FetchFirst ==
    /\ Mount => nCalls = 0 /\ pending = EmptyBag
    /\ \A c \in BagToSet(pending) :
          ResolveFetch(c) =>
              /\ nCalls = 1
              /\ pending = SetToBag({c})
              /\ allPoints = << >>
              /\ store = InitialDocs

\* C34, once: at most one fetch is ever in flight, and none after the mount's has
\* resolved
C34_FetchOnce ==
    /\ BagCardinality(pending) > 0 =>
          \A c \in BagToSet(pending) :
              c.kind = "fetch" => pending = SetToBag({c}) /\ isLoading /\ nCalls = 1
    /\ ~isLoading => \A c \in BagToSet(pending) : c.kind # "fetch"

\* C34: no insert, update or delete can be issued before the initial fetch has
\* resolved, so the fetch result, which replaces the whole local list, never
\* overwrites the effect of a local mutation; fetch-all is issued once per session.
C34_FetchBeforeMutations ==
    /\ []C34_FetchOnce
    /\ [][C34_NoCallWhileLoading]_vars
    /\ [][C34_FetchFirst]_vars

\* C34 witness: the list is the fetched one and an insert has been issued after it
C34_Witness ==
    /\ allPoints = InitialDocs
    /\ nCalls = 2
    /\ \E c \in BagToSet(pending) : c.kind = "insert" /\ c.phase = "sent"

\* the controller's state cells
C35_Controller ==
    <<allPoints, selectedCategories, selectedPoint, editingPointId, isSelectingLocation,
      isAddingNewPointMode, categoryForNewPoint, showProblemReportForm, isLoading,
      error>>

\* C35, the dispatch of a click on an empty area
C35_EmptyAreaClick ==
    \A xOnImage \in ClickXs, yOnImage \in ClickYs :
        handleMapClick(xOnImage, yOnImage) =>
            /\ UNCHANGED <<C35_Controller, store>>
            /\ IF isAddingNewPointMode
               THEN /\ lastOp' = "handlePlaceNewPoint"
                    /\ \A c \in BagToSet(pending') : Issued(c) => c.kind = "insert"
               ELSE IF editingPointId # NULL /\ isSelectingLocation
               THEN /\ lastOp' = "handlePointCoordinateChange"
                    /\ \A c \in BagToSet(pending') :
                          Issued(c) => c.kind = "coord" /\ c.pointId = editingPointId
               ELSE /\ lastOp' = "handleMapClick"
                    /\ UNCHANGED <<pending, nCalls, requests>>

\* C35, the marker: a click on a marker issues no call
C35_MarkerClickPlacesNothing ==
    \A point \in Range(allPoints) :
        MarkerClick(point) => UNCHANGED <<pending, nCalls, requests, store, allPoints>>

\* C35: a click on an empty map area dispatches by mode: in add mode it requests
\* placement of a new point, otherwise with editingPointId set and
\* isSelectingLocation true it requests relocation of editingPointId, and in every
\* other state it issues no store call and changes no controller state; a click
\* that lands on a marker never dispatches a placement.
C35_MapClickDispatch ==
    /\ [][C35_EmptyAreaClick]_vars
    /\ [][C35_MarkerClickPlacesNothing]_vars

\* C35 witness: the map was clicked while a point was being edited without a
\* relocation going on, and nothing was issued
C35_Witness ==
    /\ lastOp = "handleMapClick"
    /\ editingPointId # NULL
    /\ selectedPoint # NoPoint
    /\ ~isSelectingLocation
    /\ nCalls = 1

\* C36: when all registry categories are selected (the state at load and after a
\* filter reset), every point of the local list is visible on the map, including
\* points fetched from the store whose category field was missing or is not a
\* registry id.
C36_AllSelectedShowsAll ==
    (\A categoryId \in Range(INITIAL_CATEGORIES) : includes(selectedCategories, categoryId))
        => filteredPoints = allPoints

\* C37, the step: the continuation of a failed insert
C37_FailedInsert ==
    \A c \in BagToSet(pending) :
        (c.kind = "insert" /\ Resumed(c, "err")) =>
            /\ UNCHANGED <<allPoints, store, selectedPoint, editingPointId>>
            /\ ~isAddingNewPointMode'
            /\ categoryForNewPoint' = ""

\* C37: when the store insert of a new point fails, the local point list is
\* unchanged (no point is added), add mode is left (isAddingNewPointMode = false,
\* categoryForNewPoint empty), and the selected point and editingPointId are
\* unchanged.
C37_FailedInsertLeavesAddMode == [][C37_FailedInsert]_vars

\* C37 witness: the request of an insert failed while the page was in add mode, and
\* its continuation has run
C37_Witness ==
    /\ db
    /\ lastOp = "insert"
    /\ toast = "Error Adding Point"
    /\ ~isAddingNewPointMode
    /\ categoryForNewPoint = ""
    /\ allPoints = InitialDocs
    /\ store = InitialDocs
    /\ requests = 2

\* C38, the outcome: the continuation of the fetch ends the loading, with the
\* fetched points and no error on success, with an error on failure
C38_FetchOutcome ==
    \A c \in BagToSet(pending) :
        ResolveFetch(c) =>
            /\ ~isLoading'
            /\ c.phase = "ok" =>
                  /\ allPoints' = [i \in 1..Len(store) |-> mapDocToRecyclingPoint(store[i])]
                  /\ error' = NoError
            /\ c.phase = "err" => error' # NoError

\* C38, for good: once false, isLoading stays false
C38_LoadingStaysEnded == ~isLoading => ~isLoading'

\* C38: provided the store eventually answers the initial fetch, isLoading
\* eventually becomes false and stays false, whether the fetch succeeds (local list
\* = fetched points, error null) or fails (error non-null).
C38_LoadingEnds ==
    /\ <>[](~isLoading)
    /\ [][C38_FetchOutcome]_vars
    /\ [][C38_LoadingStaysEnded]_vars

\* C38 witness: the fetch has succeeded and the loading has ended
C38_Witness ==
    /\ lastOp = "fetchPoints"
    /\ ~isLoading
    /\ error = NoError
    /\ allPoints = InitialDocs
    /\ pending = EmptyBag

====
